---------------------------- MODULE Spec2Model ----------------------------
(***************************************************************************)
(* Model of the gray quantization engine of grayquant.c: the quantization  *)
(* table builders, the pixelwise threshold binarizers, the band mask       *)
(* generator and the two binary dithering paths.                           *)
(*                                                                         *)
(* The engine is a library of synchronous calls.  A behaviour is one       *)
(* caller: Init draws the arguments of a family of entry points (family,   *)
(* args) and every action is one whole call of an entry point, whose       *)
(* return value is recorded in rets.                                       *)
(***************************************************************************)
EXTENDS Integers, Sequences, FiniteSets, TLC

VARIABLES family, args, rets

vars == <<family, args, rets>>

(***************************************************************************)
(* C arithmetic                                                            *)
(***************************************************************************)

\* C99 integer division truncates toward zero; \div floors.
CDiv(a, b) ==
    IF a >= 0 THEN a \div b ELSE -((-a) \div b)

\* 1 << n for the small n used here
Shl1(n) == 2 ^ n

(***************************************************************************)
(* Return values                                                           *)
(***************************************************************************)

\* a slot of rets whose entry point has not been called yet
NotCalled == [called |-> FALSE]

\* an l_int32 table pointer: NULL, or 256 entries indexed 0..255
NullTab == [called |-> TRUE, trap |-> FALSE, null |-> TRUE, tab |-> <<>>]

OkTab(t) == [called |-> TRUE, trap |-> FALSE, null |-> FALSE, tab |-> t]

\* the call did not return: the integer division by zero trapped
TrapTab == [called |-> TRUE, trap |-> TRUE, null |-> TRUE, tab |-> <<>>]

(***************************************************************************)
(* Quantization tables for linear thresholds                               *)
(***************************************************************************)

\* What a build can leave in thresh after 255 * (2j+1) / 0: the division is
\* undefined behaviour, so the value is drawn, and the call may also trap.
UBQuotients == {-1, 0, 255}

\* mutant: the quotient rounded up
QuantThresh_RoundUp(j, nlevels, ubq) ==
    IF 2 * nlevels - 2 = 0 THEN ubq
    ELSE CDiv(255 * (2 * j + 1) + 2 * nlevels - 3, 2 * nlevels - 2)

\* mutant: the divisor without its - 2
QuantThresh_NoMinus2(j, nlevels, ubq) ==
    IF 2 * nlevels = 0 THEN ubq
    ELSE CDiv(255 * (2 * j + 1), 2 * nlevels)

\* thresh = 255 * (2 * j + 1) / (2 * nlevels - 2)
QuantThresh(j, nlevels, ubq) ==
    IF 2 * nlevels - 2 = 0 THEN ubq
    ELSE CDiv(255 * (2 * j + 1), 2 * nlevels - 2)

\* mutant: the break taken on i < thresh
FirstLevel_Strict(i, nlevels, ubq) ==
    CHOOSE j \in 0..(IF nlevels > 0 THEN nlevels ELSE 0) :
        /\ j >= nlevels \/ i < QuantThresh(j, nlevels, ubq)
        /\ \A k \in 0..(j - 1) : ~(i < QuantThresh(k, nlevels, ubq))

\* the inner loop over j: the first j < nlevels with i <= thresh (the break),
\* or nlevels when the loop runs out without a break
FirstLevel(i, nlevels, ubq) ==
    CHOOSE j \in 0..(IF nlevels > 0 THEN nlevels ELSE 0) :
        /\ j >= nlevels \/ i <= QuantThresh(j, nlevels, ubq)
        /\ \A k \in 0..(j - 1) : ~(i <= QuantThresh(k, nlevels, ubq))

\* the table of makeGrayQuantIndexTable: calloc'ed to 0, tab[i] = j at the break
IndexTab(nlevels, ubq) ==
    [i \in 0..255 |->
        LET j == FirstLevel(i, nlevels, ubq)
        IN  IF j >= nlevels THEN 0 ELSE j]

makeGrayQuantIndexTable(nlevels, ubq) ==
    OkTab(IndexTab(nlevels, ubq))

\* mutant: the requested level count kept at every depth
TargetLevels_Requested(nlevels, depth) == nlevels

\* the level count the target table is built for
TargetLevels(nlevels, depth) ==
    IF depth < 8 THEN Shl1(depth) ELSE nlevels

\* mutant: maxval = 1 << depth
QuantVal_MaxvalOff(j, nl, depth, ubq) ==
    IF nl - 1 = 0 THEN ubq
    ELSE CDiv(Shl1(depth) * j, nl - 1)

\* quantval = maxval * j / (nlevels - 1), with maxval = (1 << depth) - 1
QuantVal(j, nl, depth, ubq) ==
    IF nl - 1 = 0 THEN ubq
    ELSE CDiv((Shl1(depth) - 1) * j, nl - 1)

TargetTab(nlevels, depth, ubq) ==
    LET nl == TargetLevels(nlevels, depth)
    IN  [i \in 0..255 |->
            LET j == FirstLevel(i, nl, ubq)
            IN  IF j >= nl THEN 0 ELSE QuantVal(j, nl, depth, ubq)]

makeGrayQuantTargetTable(nlevels, depth, ubq) ==
    OkTab(TargetTab(nlevels, depth, ubq))

\* the calls whose arguments make the code divide by zero
DividesByZero(nl) == nl = 1

(***************************************************************************)
(* Families "index" and "target": a caller of the two linear table         *)
(* builders                                                                *)
(***************************************************************************)

\* largest level count the caller tries (256 is the largest documented one)
MaxLevels == 258

TabLevels == (0 - 2)..MaxLevels

TabDepths == {2, 4, 8}

InitIndex ==
    /\ family = "index"
    /\ args \in [nlevels : TabLevels]
    /\ rets = [index |-> NotCalled]

InitTarget ==
    /\ family = "target"
    /\ args \in [nlevels : TabLevels, depth : TabDepths]
    /\ rets = [target |-> NotCalled]

InitTab == InitIndex \/ InitTarget

\* index = makeGrayQuantIndexTable(nlevels)
CallIndexTable ==
    /\ family = "index"
    /\ ~rets.index.called
    /\ \E ubq \in (IF DividesByZero(args.nlevels) THEN UBQuotients ELSE {0}),
          trap \in (IF DividesByZero(args.nlevels) THEN BOOLEAN ELSE {FALSE}) :
          rets' = [rets EXCEPT !.index =
                      IF trap THEN TrapTab
                      ELSE makeGrayQuantIndexTable(args.nlevels, ubq)]
    /\ UNCHANGED <<family, args>>

\* target = makeGrayQuantTargetTable(nlevels, depth)
CallTargetTable ==
    /\ family = "target"
    /\ ~rets.target.called
    /\ LET ub == DividesByZero(TargetLevels(args.nlevels, args.depth))
       IN  \E ubq \in (IF ub THEN UBQuotients ELSE {0}),
              trap \in (IF ub THEN BOOLEAN ELSE {FALSE}) :
              rets' = [rets EXCEPT !.target =
                          IF trap THEN TrapTab
                          ELSE makeGrayQuantTargetTable(args.nlevels, args.depth, ubq)]
    /\ UNCHANGED <<family, args>>

NextTab == CallIndexTable \/ CallTargetTable

SpecTab == InitTab /\ [][NextTab]_vars

(***************************************************************************)
(* Rasters                                                                 *)
(*                                                                         *)
(* A PIX is its width, height, depth, optional colormap and samples; data  *)
(* is a sequence of h rows of w samples.  A colormap is the sequence of    *)
(* the gray values of its entries, entry i at position i + 1; the empty    *)
(* sequence is "no colormap".                                              *)
(***************************************************************************)

NullPix == [null |-> TRUE, w |-> 0, h |-> 0, d |-> 0, cmap |-> <<>>, data |-> <<>>]

MakePix(w, h, d, cmap, data) ==
    [null |-> FALSE, w |-> w, h |-> h, d |-> d, cmap |-> cmap, data |-> data]

\* pixCreate(w, h, depth): all samples 0, no colormap
pixCreate(w, h, depth) ==
    MakePix(w, h, depth, <<>>, [y \in 1..h |-> [x \in 1..w |-> 0]])

pixGetColormap(pix) == pix.cmap # <<>>

\* pixRemoveColormap(pixs, REMOVE_CMAP_TO_GRAYSCALE): a clone of pixs when it
\* has no colormap, else an 8 bpp raster of the gray values of its entries
pixRemoveColormap(pixs) ==
    IF ~pixGetColormap(pixs) THEN pixs
    ELSE MakePix(pixs.w, pixs.h, 8, <<>>,
                 [y \in 1..pixs.h |->
                    [x \in 1..pixs.w |-> pixs.cmap[pixs.data[y][x] + 1]]])

\* pixSizesEqual(pix1, pix2): same width, height and depth
pixSizesEqual(pix1, pix2) ==
    pix1.w = pix2.w /\ pix1.h = pix2.h /\ pix1.d = pix2.d

\* Field j of a row read with a d-bit accessor (GET_DATA_QBIT for d = 4,
\* GET_DATA_BYTE for d = 8).  Samples are packed most significant first, so
\* an accessor of the wrong width sees halves or pairs of the stored
\* samples; the bits after the last sample of a row are 0.
GetData(row, rowdepth, j, d) ==
    LET at(k) == IF k + 1 <= Len(row) THEN row[k + 1] ELSE 0
    IN  IF d = rowdepth THEN at(j)
        ELSE IF rowdepth = 8 /\ d = 4
             THEN IF j % 2 = 0 THEN at(j \div 2) \div 16 ELSE at(j \div 2) % 16
        ELSE IF rowdepth = 4 /\ d = 8
             THEN 16 * at(2 * j) + at(2 * j + 1)
        ELSE at(j)

\* SET_DATA_BIT on a raster from pixCreate(w, h, 1): the rows of the mask
\* whose bit (x, y) is set where set[y][x] holds, x and y counted from 1
SetBits(pixd, set) ==
    [pixd EXCEPT !.data =
        [y \in 1..pixd.h |-> [x \in 1..pixd.w |-> IF set[y][x] THEN 1 ELSE 0]]]

(***************************************************************************)
(* Simple (pixelwise) binarization with fixed threshold                    *)
(***************************************************************************)

\* thresholdToBinaryLow(datad, w, h, wpld, datat, d, wplt, thresh): bit 1
\* where the d-bit sample is less than thresh
thresholdToBinaryLow(pixt, d, thresh) ==
    SetBits(pixCreate(pixt.w, pixt.h, 1),
            [y \in 1..pixt.h |-> [x \in 1..pixt.w |->
                GetData(pixt.data[y], pixt.d, x - 1, d) < thresh]])

\* mutant: the threshold scaled for every 4 bpp source
pixThresholdToBinary_ScaleAll4(pixs, thresh) ==
    IF pixs.null THEN NullPix
    ELSE IF pixs.d # 4 /\ pixs.d # 8 THEN NullPix
    ELSE IF thresh < 0 THEN NullPix
    ELSE IF pixs.d = 4 /\ thresh > 16 THEN NullPix
    ELSE IF pixs.d = 8 /\ thresh > 256 THEN NullPix
    ELSE LET pixt == pixRemoveColormap(pixs)
             promoted == pixs.d = 4
         IN  thresholdToBinaryLow(pixt,
                                  IF promoted THEN 8 ELSE pixs.d,
                                  IF promoted THEN thresh * 16 ELSE thresh)

\* mutant: the threshold of a promoted source left on the 4 bit scale
pixThresholdToBinary_NoScale(pixs, thresh) ==
    IF pixs.null THEN NullPix
    ELSE IF pixs.d # 4 /\ pixs.d # 8 THEN NullPix
    ELSE IF thresh < 0 THEN NullPix
    ELSE IF pixs.d = 4 /\ thresh > 16 THEN NullPix
    ELSE IF pixs.d = 8 /\ thresh > 256 THEN NullPix
    ELSE LET pixt == pixRemoveColormap(pixs)
             promoted == pixGetColormap(pixs) /\ pixs.d = 4
         IN  thresholdToBinaryLow(pixt,
                                  IF promoted THEN 8 ELSE pixs.d,
                                  thresh)

\* mutant: the upper bound of an 8 bpp threshold taken as 255
pixThresholdToBinary_Max255(pixs, thresh) ==
    IF pixs.null THEN NullPix
    ELSE IF pixs.d # 4 /\ pixs.d # 8 THEN NullPix
    ELSE IF thresh < 0 THEN NullPix
    ELSE IF pixs.d = 4 /\ thresh > 16 THEN NullPix
    ELSE IF pixs.d = 8 /\ thresh > 255 THEN NullPix
    ELSE LET pixt == pixRemoveColormap(pixs)
             promoted == pixGetColormap(pixs) /\ pixs.d = 4
         IN  thresholdToBinaryLow(pixt,
                                  IF promoted THEN 8 ELSE pixs.d,
                                  IF promoted THEN thresh * 16 ELSE thresh)

pixThresholdToBinary(pixs, thresh) ==
    IF pixs.null THEN NullPix
    ELSE IF pixs.d # 4 /\ pixs.d # 8 THEN NullPix
    ELSE IF thresh < 0 THEN NullPix
    ELSE IF pixs.d = 4 /\ thresh > 16 THEN NullPix
    ELSE IF pixs.d = 8 /\ thresh > 256 THEN NullPix
    ELSE LET pixt == pixRemoveColormap(pixs)
             promoted == pixGetColormap(pixs) /\ pixs.d = 4
         IN  thresholdToBinaryLow(pixt,
                                  IF promoted THEN 8 ELSE pixs.d,
                                  IF promoted THEN thresh * 16 ELSE thresh)

(***************************************************************************)
(* Binarization with variable threshold                                    *)
(***************************************************************************)

\* mutant: the comparison taken as vals <= valg
pixVarThresholdToBinary_Le(pixs, pixg) ==
    IF pixs.null THEN NullPix
    ELSE IF pixg.null THEN NullPix
    ELSE IF ~pixSizesEqual(pixs, pixg) THEN NullPix
    ELSE IF pixs.d # 8 THEN NullPix
    ELSE SetBits(pixCreate(pixs.w, pixs.h, 1),
                 [y \in 1..pixs.h |-> [x \in 1..pixs.w |->
                     GetData(pixs.data[y], pixs.d, x - 1, 8)
                         <= GetData(pixg.data[y], pixg.d, x - 1, 8)]])

pixVarThresholdToBinary(pixs, pixg) ==
    IF pixs.null THEN NullPix
    ELSE IF pixg.null THEN NullPix
    ELSE IF ~pixSizesEqual(pixs, pixg) THEN NullPix
    ELSE IF pixs.d # 8 THEN NullPix
    ELSE SetBits(pixCreate(pixs.w, pixs.h, 1),
                 [y \in 1..pixs.h |-> [x \in 1..pixs.w |->
                     GetData(pixs.data[y], pixs.d, x - 1, 8)
                         < GetData(pixg.data[y], pixg.d, x - 1, 8)]])

(***************************************************************************)
(* Binary mask from the pixels in or out of a band of values               *)
(***************************************************************************)

\* mutant: the upper end of the band excluded
pixGenerateMaskByBand_OpenUpper(pixs, lower, upper, inband, usecmap) ==
    IF pixs.null THEN NullPix
    ELSE IF pixs.d # 4 /\ pixs.d # 8 THEN NullPix
    ELSE IF lower < 0 \/ lower > upper THEN NullPix
    ELSE LET pixg == IF usecmap = 0 /\ pixGetColormap(pixs)
                     THEN pixRemoveColormap(pixs) ELSE pixs
         IN  IF pixg.d = 4 /\ upper > 15 THEN NullPix
             ELSE IF pixg.d = 8 /\ upper > 255 THEN NullPix
             ELSE SetBits(pixCreate(pixg.w, pixg.h, 1),
                      [y \in 1..pixg.h |-> [x \in 1..pixg.w |->
                          LET val == GetData(pixg.data[y], pixg.d, x - 1, pixg.d)
                          IN  IF inband # 0
                              THEN val >= lower /\ val < upper
                              ELSE val < lower \/ val > upper]])

pixGenerateMaskByBand(pixs, lower, upper, inband, usecmap) ==
    IF pixs.null THEN NullPix
    ELSE IF pixs.d # 4 /\ pixs.d # 8 THEN NullPix
    ELSE IF lower < 0 \/ lower > upper THEN NullPix
    ELSE LET pixg == IF usecmap = 0 /\ pixGetColormap(pixs)
                     THEN pixRemoveColormap(pixs) ELSE pixs
         IN  IF pixg.d = 4 /\ upper > 15 THEN NullPix
             ELSE IF pixg.d = 8 /\ upper > 255 THEN NullPix
             ELSE SetBits(pixCreate(pixg.w, pixg.h, 1),
                      [y \in 1..pixg.h |-> [x \in 1..pixg.w |->
                          LET val == GetData(pixg.data[y], pixg.d, x - 1, pixg.d)
                          IN  IF inband # 0
                              THEN val >= lower /\ val <= upper
                              ELSE val < lower \/ val > upper]])

(***************************************************************************)
(* Binary mask from pixels of a particular value                           *)
(***************************************************************************)

\* mutant: val checked against the depth of pixs, not of the raster compared
pixGenerateMaskByValue_SourceDepth(pixs, val, usecmap) ==
    IF pixs.null THEN NullPix
    ELSE IF pixs.d # 4 /\ pixs.d # 8 THEN NullPix
    ELSE LET pixg == IF usecmap = 0 /\ pixGetColormap(pixs)
                     THEN pixRemoveColormap(pixs) ELSE pixs
         IN  IF pixs.d = 4 /\ (val < 0 \/ val > 15) THEN NullPix
             ELSE IF pixs.d = 8 /\ (val < 0 \/ val > 255) THEN NullPix
             ELSE SetBits(pixCreate(pixg.w, pixg.h, 1),
                      [y \in 1..pixg.h |-> [x \in 1..pixg.w |->
                          GetData(pixg.data[y], pixg.d, x - 1, pixg.d) = val]])

pixGenerateMaskByValue(pixs, val, usecmap) ==
    IF pixs.null THEN NullPix
    ELSE IF pixs.d # 4 /\ pixs.d # 8 THEN NullPix
    ELSE LET pixg == IF usecmap = 0 /\ pixGetColormap(pixs)
                     THEN pixRemoveColormap(pixs) ELSE pixs
         IN  IF pixg.d = 4 /\ (val < 0 \/ val > 15) THEN NullPix
             ELSE IF pixg.d = 8 /\ (val < 0 \/ val > 255) THEN NullPix
             ELSE SetBits(pixCreate(pixg.w, pixg.h, 1),
                      [y \in 1..pixg.h |-> [x \in 1..pixg.w |->
                          GetData(pixg.data[y], pixg.d, x - 1, pixg.d) = val]])

(***************************************************************************)
(* Thresholding from 32 bpp rgb to 1 bpp                                   *)
(*                                                                         *)
(* A 32 bpp sample and a reference value are words of four bytes, written  *)
(* here as <<byte 3, byte 2, byte 1, byte 0>>, most significant first.     *)
(***************************************************************************)

\* the largest l_int32
INT_MAX == 2147483647

L_RED_SHIFT == 24

L_GREEN_SHIFT == 16

L_BLUE_SHIFT == 8

\* (pixel >> shift) & 0xff
ShiftByte(pixel, shift) == pixel[4 - shift \div 8]

\* extractRGBValues(pixel, &rval, &gval, &bval)
extractRGBValues(pixel) ==
    [r |-> ShiftByte(pixel, L_RED_SHIFT), g |-> ShiftByte(pixel, L_GREEN_SHIFT),
     b |-> ShiftByte(pixel, L_BLUE_SHIFT)]

\* val > ref + delp in l_int32: the sum overflows when delp > INT_MAX - ref,
\* which is undefined; ubwrap tells whether the build then wraps the sum
\* (to a negative number, so that the comparison holds) or compares as if
\* it had not overflowed
AboveBand(val, ref, delp, ubwrap) ==
    IF delp > INT_MAX - ref THEN ubwrap ELSE val > ref + delp

Band32Overflows(refval, delp) ==
    \E ref \in {extractRGBValues(refval).r, extractRGBValues(refval).g,
                extractRGBValues(refval).b} : delp > INT_MAX - ref

pixGenerateMaskByBand32(pixs, refval, delm, delp, ubwrap) ==
    IF pixs.null THEN NullPix
    ELSE IF pixs.d # 32 THEN NullPix
    ELSE IF delm < 0 \/ delp < 0 THEN NullPix
    ELSE LET ref == extractRGBValues(refval)
         IN  SetBits(pixCreate(pixs.w, pixs.h, 1),
                 [y \in 1..pixs.h |-> [x \in 1..pixs.w |->
                     LET pixel == pixs.data[y][x]
                         rval == ShiftByte(pixel, L_RED_SHIFT)
                         gval == ShiftByte(pixel, L_GREEN_SHIFT)
                         bval == ShiftByte(pixel, L_BLUE_SHIFT)
                     IN  /\ ~(rval < ref.r - delm \/ AboveBand(rval, ref.r, delp, ubwrap))
                         /\ ~(gval < ref.g - delm \/ AboveBand(gval, ref.g, delp, ubwrap))
                         /\ ~(bval < ref.b - delm \/ AboveBand(bval, ref.b, delp, ubwrap))]])

L_MANHATTAN_DISTANCE == 1

L_EUCLIDEAN_DISTANCE == 2

L_ABS(x) == IF x < 0 THEN 0 - x ELSE x

\* mutant: a pixel as far from refval1 as from refval2 is set too
pixGenerateMaskByDiscr32_Le(pixs, refval1, refval2, distflag) ==
    IF pixs.null THEN NullPix
    ELSE IF pixs.d # 32 THEN NullPix
    ELSE IF distflag # L_MANHATTAN_DISTANCE /\ distflag # L_EUCLIDEAN_DISTANCE
         THEN NullPix
    ELSE LET ref1 == extractRGBValues(refval1)
             ref2 == extractRGBValues(refval2)
         IN  SetBits(pixCreate(pixs.w, pixs.h, 1),
                 [y \in 1..pixs.h |-> [x \in 1..pixs.w |->
                     LET val == extractRGBValues(pixs.data[y][x])
                         dist1 == IF distflag = L_MANHATTAN_DISTANCE
                                  THEN L_ABS(ref1.r - val.r) + L_ABS(ref1.g - val.g)
                                           + L_ABS(ref1.b - val.b)
                                  ELSE (ref1.r - val.r) * (ref1.r - val.r)
                                           + (ref1.g - val.g) * (ref1.g - val.g)
                                           + (ref1.b - val.b) * (ref1.b - val.b)
                         dist2 == IF distflag = L_MANHATTAN_DISTANCE
                                  THEN L_ABS(ref2.r - val.r) + L_ABS(ref2.g - val.g)
                                           + L_ABS(ref2.b - val.b)
                                  ELSE (ref2.r - val.r) * (ref2.r - val.r)
                                           + (ref2.g - val.g) * (ref2.g - val.g)
                                           + (ref2.b - val.b) * (ref2.b - val.b)
                     IN  dist1 <= dist2]])

pixGenerateMaskByDiscr32(pixs, refval1, refval2, distflag) ==
    IF pixs.null THEN NullPix
    ELSE IF pixs.d # 32 THEN NullPix
    ELSE IF distflag # L_MANHATTAN_DISTANCE /\ distflag # L_EUCLIDEAN_DISTANCE
         THEN NullPix
    ELSE LET ref1 == extractRGBValues(refval1)
             ref2 == extractRGBValues(refval2)
         IN  SetBits(pixCreate(pixs.w, pixs.h, 1),
                 [y \in 1..pixs.h |-> [x \in 1..pixs.w |->
                     LET val == extractRGBValues(pixs.data[y][x])
                         dist1 == IF distflag = L_MANHATTAN_DISTANCE
                                  THEN L_ABS(ref1.r - val.r) + L_ABS(ref1.g - val.g)
                                           + L_ABS(ref1.b - val.b)
                                  ELSE (ref1.r - val.r) * (ref1.r - val.r)
                                           + (ref1.g - val.g) * (ref1.g - val.g)
                                           + (ref1.b - val.b) * (ref1.b - val.b)
                         dist2 == IF distflag = L_MANHATTAN_DISTANCE
                                  THEN L_ABS(ref2.r - val.r) + L_ABS(ref2.g - val.g)
                                           + L_ABS(ref2.b - val.b)
                                  ELSE (ref2.r - val.r) * (ref2.r - val.r)
                                           + (ref2.g - val.g) * (ref2.g - val.g)
                                           + (ref2.b - val.b) * (ref2.b - val.b)
                     IN  dist1 < dist2]])

(***************************************************************************)
(* Simple (pixelwise) thresholding to 2 bpp and 4 bpp                      *)
(***************************************************************************)

\* pixcmapCreateLinear(d, nlevels): nlevels equally spaced gray entries
pixcmapCreateLinear(d, nlevels) ==
    [i \in 1..nlevels |-> (255 * (i - 1)) \div (nlevels - 1)]

\* thresholdTo2bppLow, thresholdTo4bppLow: every sample of the 8 bpp pixt
\* replaced by its entry of qtab
thresholdToNbppLow(pixd, pixt, qtab) ==
    [pixd EXCEPT !.data =
        [y \in 1..pixd.h |-> [x \in 1..pixd.w |->
            qtab.tab[GetData(pixt.data[y], pixt.d, x - 1, 8)]]]]

\* pixThresholdTo2bpp (outdepth 2, at most 4 levels) and pixThresholdTo4bpp
\* (outdepth 4, at most 16 levels), which differ in these two numbers only
pixThresholdToNbpp(pixs, nlevels, cmapflag, outdepth) ==
    IF pixs.null THEN NullPix
    ELSE IF pixs.d # 8 THEN NullPix
    ELSE IF nlevels < 2 \/ nlevels > Shl1(outdepth) THEN NullPix
    ELSE LET qtab == IF cmapflag # 0
                     THEN makeGrayQuantIndexTable(nlevels, 0)
                     ELSE makeGrayQuantTargetTable(Shl1(outdepth), outdepth, 0)
             pixd == [pixCreate(pixs.w, pixs.h, outdepth) EXCEPT !.cmap =
                         IF cmapflag # 0
                         THEN pixcmapCreateLinear(outdepth, nlevels) ELSE <<>>]
             pixt == pixRemoveColormap(pixs)
         IN  thresholdToNbppLow(pixd, pixt, qtab)

pixThresholdTo2bpp(pixs, nlevels, cmapflag) ==
    pixThresholdToNbpp(pixs, nlevels, cmapflag, 2)

pixThresholdTo4bpp(pixs, nlevels, cmapflag) ==
    pixThresholdToNbpp(pixs, nlevels, cmapflag, 4)

(***************************************************************************)
(* Binarization by error diffusion dithering                               *)
(*                                                                         *)
(* bufs1 holds the samples of the current line and bufs2 those of the next *)
(* line, each already changed by the excess carried to it.  A pixel above  *)
(* 127 becomes white (bit 0) and one below 128 black (bit 1); unless the   *)
(* pixel is within the clip distance of 255, resp. 0, its excess goes 3/8  *)
(* to the right, 3/8 down and 1/4 down right, the changed neighbour kept   *)
(* in [0,255].  The last column and the last line drop the terms that      *)
(* would fall outside the raster.                                          *)
(***************************************************************************)

\* default clip distances to black and to white of the binary dither
DEFAULT_CLIP_LOWER_1 == 10

DEFAULT_CLIP_UPPER_1 == 10

L_MAX(a, b) == IF a > b THEN a ELSE b

L_MIN(a, b) == IF a < b THEN a ELSE b

\* make8To1DitherTables(&tabval, &tab38, &tab14, lowerclip, upperclip): for
\* each value the output bit and the signed 3/8 and 1/4 of its excess
make8To1DitherTables(lowerclip, upperclip) ==
    LET excess(i) == IF i < 128
                     THEN IF i <= lowerclip THEN 0 ELSE i
                     ELSE IF i >= 255 - upperclip THEN 0 ELSE i - 255
    IN  [tabval |-> [i \in 0..255 |-> IF i < 128 THEN 1 ELSE 0],
         tab38 |-> [i \in 0..255 |-> CDiv(3 * excess(i), 8)],
         tab14 |-> [i \in 0..255 |-> CDiv(excess(i), 4)]]

\* mutant: the excess spread whatever the clip distances are
DitherPixelDirect_NoClip(st, j, w, lastline, lowerclip, upperclip) ==
    LET oval == st.bufs1[j + 1]
        white == oval > 127
        eval == IF white THEN 255 - oval ELSE oval
        spread == TRUE
        fval == (3 * eval) \div 8
        qval == eval \div 4
        shift(v, by) == IF white THEN L_MAX(0, v - by) ELSE L_MIN(255, v + by)
    IN  [bufs1 |-> IF spread /\ j + 1 < w
                   THEN [st.bufs1 EXCEPT ![j + 2] = shift(@, fval)]
                   ELSE st.bufs1,
         bufs2 |-> IF spread /\ ~lastline
                   THEN [x \in 1..w |->
                            IF x = j + 1 THEN shift(st.bufs2[x], fval)
                            ELSE IF x = j + 2 THEN shift(st.bufs2[x], qval)
                            ELSE st.bufs2[x]]
                   ELSE st.bufs2,
         lined |-> Append(st.lined, IF white THEN 0 ELSE 1)]

\* mutant: the fractions of the two pixels of the line below exchanged
DitherPixelDirect_QuarterBelow(st, j, w, lastline, lowerclip, upperclip) ==
    LET oval == st.bufs1[j + 1]
        white == oval > 127
        eval == IF white THEN 255 - oval ELSE oval
        spread == IF white THEN eval > upperclip ELSE oval > lowerclip
        fval == (3 * eval) \div 8
        qval == eval \div 4
        shift(v, by) == IF white THEN L_MAX(0, v - by) ELSE L_MIN(255, v + by)
    IN  [bufs1 |-> IF spread /\ j + 1 < w
                   THEN [st.bufs1 EXCEPT ![j + 2] = shift(@, fval)]
                   ELSE st.bufs1,
         bufs2 |-> IF spread /\ ~lastline
                   THEN [x \in 1..w |->
                            IF x = j + 1 THEN shift(st.bufs2[x], qval)
                            ELSE IF x = j + 2 THEN shift(st.bufs2[x], fval)
                            ELSE st.bufs2[x]]
                   ELSE st.bufs2,
         lined |-> Append(st.lined, IF white THEN 0 ELSE 1)]

\* one pixel of ditherToBinaryLow: st = [bufs1, bufs2, lined], column j
\* counted from 0
DitherPixelDirect(st, j, w, lastline, lowerclip, upperclip) ==
    LET oval == st.bufs1[j + 1]
        white == oval > 127
        eval == IF white THEN 255 - oval ELSE oval
        spread == IF white THEN eval > upperclip ELSE oval > lowerclip
        fval == (3 * eval) \div 8
        qval == eval \div 4
        shift(v, by) == IF white THEN L_MAX(0, v - by) ELSE L_MIN(255, v + by)
    IN  [bufs1 |-> IF spread /\ j + 1 < w
                   THEN [st.bufs1 EXCEPT ![j + 2] = shift(@, fval)]
                   ELSE st.bufs1,
         bufs2 |-> IF spread /\ ~lastline
                   THEN [x \in 1..w |->
                            IF x = j + 1 THEN shift(st.bufs2[x], fval)
                            ELSE IF x = j + 2 THEN shift(st.bufs2[x], qval)
                            ELSE st.bufs2[x]]
                   ELSE st.bufs2,
         lined |-> Append(st.lined, IF white THEN 0 ELSE 1)]

\* one pixel of ditherToBinaryLUTLow
DitherPixelLUT(st, j, w, lastline, tabs) ==
    LET oval == st.bufs1[j + 1]
        tab38val == tabs.tab38[oval]
        tab14val == tabs.tab14[oval]
        add(v, by) == L_MAX(0, L_MIN(255, v + by))
    IN  [bufs1 |-> IF j + 1 < w
                   THEN [st.bufs1 EXCEPT ![j + 2] = add(@, tab38val)]
                   ELSE st.bufs1,
         bufs2 |-> IF ~lastline
                   THEN [x \in 1..w |->
                            IF x = j + 1 THEN add(st.bufs2[x], tab38val)
                            ELSE IF x = j + 2 THEN add(st.bufs2[x], tab14val)
                            ELSE st.bufs2[x]]
                   ELSE st.bufs2,
         lined |-> Append(st.lined, tabs.tabval[oval])]

\* kern selects the kernel: [lut |-> FALSE, lowerclip, upperclip] or
\* [lut |-> TRUE, tabs]
DitherPixel(st, j, w, lastline, kern) ==
    IF kern.lut THEN DitherPixelLUT(st, j, w, lastline, kern.tabs)
    ELSE DitherPixelDirect(st, j, w, lastline, kern.lowerclip, kern.upperclip)

\* the columns j .. w-1 of one line, left to right
RECURSIVE DitherLine(_, _, _, _, _)
DitherLine(st, j, w, lastline, kern) ==
    IF j >= w THEN st
    ELSE DitherLine(DitherPixel(st, j, w, lastline, kern), j + 1, w, lastline, kern)

\* the lines y .. h of pixt, top to bottom (y counted from 1): bufs1 is the
\* line as the lines above left it, bufs2 starts as a copy of the line below
RECURSIVE DitherLines(_, _, _, _, _)
DitherLines(pixt, y, bufs1, rows, kern) ==
    IF y > pixt.h THEN rows
    ELSE LET lastline == y = pixt.h
             st == DitherLine([bufs1 |-> bufs1,
                               bufs2 |-> IF lastline THEN [x \in 1..pixt.w |-> 0]
                                         ELSE pixt.data[y + 1],
                               lined |-> <<>>],
                              0, pixt.w, lastline, kern)
         IN  DitherLines(pixt, y + 1, st.bufs2, Append(rows, st.lined), kern)

\* ditherToBinaryLow(datad, w, h, wpld, datat, wplt, bufs1, bufs2,
\* lowerclip, upperclip)
ditherToBinaryLow(pixd, pixt, lowerclip, upperclip) ==
    [pixd EXCEPT !.data =
        DitherLines(pixt, 1, pixt.data[1], <<>>,
                    [lut |-> FALSE, lowerclip |-> lowerclip, upperclip |-> upperclip])]

\* ditherToBinaryLUTLow(datad, w, h, wpld, datat, wplt, bufs1, bufs2,
\* tabval, tab38, tab14)
ditherToBinaryLUTLow(pixd, pixt, tabs) ==
    [pixd EXCEPT !.data =
        DitherLines(pixt, 1, pixt.data[1], <<>>, [lut |-> TRUE, tabs |-> tabs])]

pixDitherToBinarySpec(pixs, lowerclip, upperclip) ==
    IF pixs.null THEN NullPix
    ELSE IF pixs.d # 8 THEN NullPix
    ELSE IF lowerclip < 0 \/ lowerclip > 255 THEN NullPix
    ELSE IF upperclip < 0 \/ upperclip > 255 THEN NullPix
    ELSE ditherToBinaryLow(pixCreate(pixs.w, pixs.h, 1),
                           pixRemoveColormap(pixs), lowerclip, upperclip)

\* mutant: a clip distance of 0 also replaced by the default
pixDitherToBinaryLUT_ZeroDefault(pixs, lowerclip, upperclip) ==
    IF pixs.null THEN NullPix
    ELSE IF pixs.d # 8 THEN NullPix
    ELSE LET lower == IF lowerclip <= 0 THEN DEFAULT_CLIP_LOWER_1 ELSE lowerclip
             upper == IF upperclip <= 0 THEN DEFAULT_CLIP_UPPER_1 ELSE upperclip
         IN  ditherToBinaryLUTLow(pixCreate(pixs.w, pixs.h, 1),
                                  pixRemoveColormap(pixs),
                                  make8To1DitherTables(lower, upper))

pixDitherToBinaryLUT(pixs, lowerclip, upperclip) ==
    IF pixs.null THEN NullPix
    ELSE IF pixs.d # 8 THEN NullPix
    ELSE LET lower == IF lowerclip < 0 THEN DEFAULT_CLIP_LOWER_1 ELSE lowerclip
             upper == IF upperclip < 0 THEN DEFAULT_CLIP_UPPER_1 ELSE upperclip
         IN  ditherToBinaryLUTLow(pixCreate(pixs.w, pixs.h, 1),
                                  pixRemoveColormap(pixs),
                                  make8To1DitherTables(lower, upper))

(***************************************************************************)
(* Dithering to 2 bpp                                                      *)
(***************************************************************************)

\* make8To2DitherTables(&tabval, &tab38, &tab14, cliptoblack, cliptowhite):
\* for each value the level among 0, 85, 170, 255 chosen by the thresholds
\* 43, 128, 213, and the signed 3/8 and 1/4 of the excess over that level,
\* none within the clip distances of 0 and 255
make8To2DitherTables(cliptoblack, cliptowhite) ==
    LET level(i) == IF i < 43 THEN 0 ELSE IF i < 128 THEN 1
                    ELSE IF i < 213 THEN 2 ELSE 3
        excess(i) == IF level(i) = 0 /\ i <= cliptoblack THEN 0
                     ELSE IF level(i) = 3 /\ i >= 255 - cliptowhite THEN 0
                     ELSE i - 85 * level(i)
    IN  [tabval |-> [i \in 0..255 |-> level(i)],
         tab38 |-> [i \in 0..255 |-> CDiv(3 * excess(i), 8)],
         tab14 |-> [i \in 0..255 |-> CDiv(excess(i), 4)]]

\* ditherTo2bppLow(datad, w, h, wpld, datat, wplt, bufs1, bufs2, tabval,
\* tab38, tab14)
ditherTo2bppLow(pixd, pixt, tabs) ==
    [pixd EXCEPT !.data =
        DitherLines(pixt, 1, pixt.data[1], <<>>, [lut |-> TRUE, tabs |-> tabs])]

\* mutant: the clip distances tested from below only
pixDitherTo2bppSpec_NoUpperCheck(pixs, lowerclip, upperclip, cmapflag) ==
    IF pixs.null THEN NullPix
    ELSE IF pixs.d # 8 THEN NullPix
    ELSE IF lowerclip < 0 THEN NullPix
    ELSE IF upperclip < 0 THEN NullPix
    ELSE LET low == ditherTo2bppLow(pixCreate(pixs.w, pixs.h, 2),
                                    pixRemoveColormap(pixs),
                                    make8To2DitherTables(lowerclip, upperclip))
         IN  [low EXCEPT !.cmap = IF cmapflag # 0 THEN pixcmapCreateLinear(2, 4)
                                  ELSE <<>>]

pixDitherTo2bppSpec(pixs, lowerclip, upperclip, cmapflag) ==
    IF pixs.null THEN NullPix
    ELSE IF pixs.d # 8 THEN NullPix
    ELSE IF lowerclip < 0 \/ lowerclip > 255 THEN NullPix
    ELSE IF upperclip < 0 \/ upperclip > 255 THEN NullPix
    ELSE LET low == ditherTo2bppLow(pixCreate(pixs.w, pixs.h, 2),
                                    pixRemoveColormap(pixs),
                                    make8To2DitherTables(lowerclip, upperclip))
         IN  [low EXCEPT !.cmap = IF cmapflag # 0 THEN pixcmapCreateLinear(2, 4)
                                  ELSE <<>>]

(***************************************************************************)
(* Quantization table for arbitrary thresholding of grayscale images       *)
(***************************************************************************)

\* a number array: NullNuma, or the numbers stored in it
NullNuma == [null |-> TRUE, array |-> <<>>]

MakeNuma(array) == [null |-> FALSE, array |-> array]

numaGetCount(na) == IF na.null THEN 0 ELSE Len(na.array)

\* numaGetIValue(na, index, &ival), index counted from 0
numaGetIValue(na, index) == na.array[index + 1]

\* a colormap under construction: its depth, the number of entries it has
\* room for and its gray entries in order
NullCmap == [null |-> TRUE, depth |-> 0, nalloc |-> 0, array |-> <<>>]

\* pixcmapCreate(depth): an empty colormap with room for 2^depth entries
pixcmapCreate(depth) ==
    IF depth \notin {1, 2, 4, 8} THEN NullCmap
    ELSE [null |-> FALSE, depth |-> depth, nalloc |-> Shl1(depth), array |-> <<>>]

\* pixcmapAddColor(cmap, val, val, val): one more gray entry, unless full
pixcmapAddColor(cmap, val) ==
    IF cmap.null \/ Len(cmap.array) >= cmap.nalloc THEN cmap
    ELSE [cmap EXCEPT !.array = Append(@, val)]

\* mutant: one bin more than the colormap has levels let through
ArbTooManyBins_OffByOne(n, outdepth) == n > Shl1(outdepth)

\* n + 1 > (1 << outdepth)
ArbTooManyBins(n, outdepth) == n + 1 > Shl1(outdepth)

\* mutant: the next bin starts one above the boundary
ArbBinStep_SkipBoundary(st, i, val) ==
    LET ave == CDiv(st.jstart + val, 2)
    IN  [jstart |-> val + 1,
         tab |-> [j \in 0..255 |-> IF st.jstart <= j /\ j < val THEN i ELSE st.tab[j]],
         cmap |-> pixcmapAddColor(st.cmap, ave)]

\* mutant: the entry of a bin taken at its upper boundary
ArbBinStep_AveUpper(st, i, val) ==
    LET ave == val
    IN  [jstart |-> val,
         tab |-> [j \in 0..255 |-> IF st.jstart <= j /\ j < val THEN i ELSE st.tab[j]],
         cmap |-> pixcmapAddColor(st.cmap, ave)]

\* the body of the loop over the first n bins, for bin i with upper
\* boundary val: st = [jstart, tab, cmap]
ArbBinStep(st, i, val) ==
    LET ave == CDiv(st.jstart + val, 2)
    IN  [jstart |-> val,
         tab |-> [j \in 0..255 |-> IF st.jstart <= j /\ j < val THEN i ELSE st.tab[j]],
         cmap |-> pixcmapAddColor(st.cmap, ave)]

\* the loop over the bins i .. n-1
RECURSIVE ArbFirstBins(_, _, _, _)
ArbFirstBins(na, i, n, st) ==
    IF i >= n THEN st
    ELSE ArbFirstBins(na, i + 1, n, ArbBinStep(st, i, numaGetIValue(na, i)))

\* the last bin, from the last boundary to 255
ArbLastBin(st, n) ==
    LET ave == CDiv(st.jstart + 255, 2)
    IN  [jstart |-> st.jstart,
         tab |-> [j \in 0..255 |-> IF st.jstart <= j THEN n ELSE st.tab[j]],
         cmap |-> pixcmapAddColor(st.cmap, ave)]

\* what makeGrayQuantTableArb leaves: its return value, *ptab (<<>> for
\* NULL) and *pcmap
ArbResult(ret, tab, cmap) == [called |-> TRUE, ret |-> ret, tab |-> tab, cmap |-> cmap]

makeGrayQuantTableArb(na, outdepth) ==
    IF na.null THEN ArbResult(1, <<>>, NullCmap)
    ELSE LET n == numaGetCount(na)
         IN  IF ArbTooManyBins(n, outdepth) THEN ArbResult(1, <<>>, NullCmap)
             ELSE IF pixcmapCreate(outdepth).null THEN ArbResult(1, <<>>, NullCmap)
             ELSE LET st == ArbLastBin(
                                ArbFirstBins(na, 0, n,
                                    [jstart |-> 0, tab |-> [j \in 0..255 |-> 0],
                                     cmap |-> pixcmapCreate(outdepth)]), n)
                  IN  ArbResult(0, st.tab, st.cmap)

(***************************************************************************)
(* Colormap of bin averages for arbitrary thresholding                     *)
(***************************************************************************)

\* factor = L_MAX(1, (l_int32)(sqrt((l_float64)(w * h) / 30000.) + 0.5)):
\* the f with f - 0.5 <= sqrt(w * h / 30000) < f + 0.5, at least 1
SubsampleFactor(w, h) ==
    L_MAX(1, CHOOSE f \in 0..(w * h) :
                /\ f = 0 \/ (2 * f - 1) * (2 * f - 1) * 30000 <= 4 * w * h
                /\ 4 * w * h < (2 * f + 1) * (2 * f + 1) * 30000)

\* the positions (line i, column j, from 0) the histogram loop visits
SampledPositions(w, h, factor) ==
    {p \in (0..(h - 1)) \X (0..(w - 1)) : p[1] % factor = 0 /\ p[2] % factor = 0}

RECURSIVE SumOver(_, _)
SumOver(S, f) ==
    IF S = {} THEN 0
    ELSE LET x == CHOOSE y \in S : TRUE IN f[x] + SumOver(S \ {x}, f)

\* the loop "for (i = 1, index = 1; i < 256; i++)": bin index gets the first
\* i after the start found for bin index - 1 with tab[i] == index; starts
\* holds binstart[0 .. index-1], and a bin never reached keeps the 0 of CALLOC
RECURSIVE BinStarts(_, _, _, _)
BinStarts(tab, nbins, index, starts) ==
    IF index >= nbins THEN starts
    ELSE LET from == IF index = 1 THEN 1 ELSE starts[index] + 1
             found == {i \in from..255 : tab[i] = index}
         IN  IF found = {}
             THEN starts \o [k \in 1..(nbins - index) |-> 0]
             ELSE BinStarts(tab, nbins, index + 1,
                            Append(starts, CHOOSE i \in found : \A k \in found : i <= k))

\* the gray value of bin i (from 0): the average of its samples, or the
\* center of the bin when it has none; binstart[k + 1] is the start of bin k
ArbBinValue(i, nbins, bincount, binave, binstart) ==
    IF bincount # 0 THEN CDiv(binave, bincount)
    ELSE IF i < nbins - 1 THEN CDiv(binstart[i + 1] + binstart[i + 2], 2)
    ELSE CDiv(binstart[i + 1] + 255, 2)

RECURSIVE ArbAddBins(_, _, _, _)
ArbAddBins(cmap, i, nbins, vals) ==
    IF i >= nbins THEN cmap
    ELSE ArbAddBins(pixcmapAddColor(cmap, vals[i]), i + 1, nbins, vals)

\* what makeGrayQuantColormapArb leaves: its return value and *pcmap
makeGrayQuantColormapArb(pixs, tab, outdepth) ==
    IF pixs.null THEN [called |-> TRUE, ret |-> 1, cmap |-> NullCmap]
    ELSE IF pixs.d # 8 THEN [called |-> TRUE, ret |-> 1, cmap |-> NullCmap]
    ELSE IF tab = <<>> THEN [called |-> TRUE, ret |-> 1, cmap |-> NullCmap]
    ELSE LET nbins == tab[255] + 1
         IN  IF nbins > Shl1(outdepth)
             THEN [called |-> TRUE, ret |-> 1, cmap |-> NullCmap]
             ELSE LET factor == SubsampleFactor(pixs.w, pixs.h)
                      sampled == SampledPositions(pixs.w, pixs.h, factor)
                      val == [p \in sampled |->
                                 GetData(pixs.data[p[1] + 1], pixs.d, p[2], 8)]
                      inbin(i) == {p \in sampled : tab[val[p]] = i}
                      binstart == BinStarts(tab, nbins, 1, <<0>>)
                      vals == [i \in 0..(nbins - 1) |->
                                  ArbBinValue(i, nbins, Cardinality(inbin(i)),
                                              SumOver(inbin(i), val), binstart)]
                  IN  [called |-> TRUE, ret |-> 0,
                       cmap |-> ArbAddBins(pixcmapCreate(outdepth), 0, nbins, vals)]

(***************************************************************************)
(* Simple (pixelwise) thresholding on 8 bpp with optional colormap         *)
(***************************************************************************)

\* mutant: the quantized gray values stored under the colormap too
pixThresholdOn8bpp_ValuesUnderCmap(pixs, nlevels, cmapflag) ==
    IF pixs.null THEN NullPix
    ELSE IF pixs.d # 8 THEN NullPix
    ELSE IF nlevels < 2 \/ nlevels > 256 THEN NullPix
    ELSE LET qtab == makeGrayQuantTargetTable(nlevels, 8, 0)
             pixd == IF pixGetColormap(pixs) THEN pixRemoveColormap(pixs) ELSE pixs
         IN  [pixd EXCEPT
                 !.cmap = IF cmapflag # 0 THEN pixcmapCreateLinear(8, nlevels) ELSE @,
                 !.data = [y \in 1..pixd.h |-> [x \in 1..pixd.w |->
                              qtab.tab[GetData(pixd.data[y], pixd.d, x - 1, 8)]]]]

pixThresholdOn8bpp(pixs, nlevels, cmapflag) ==
    IF pixs.null THEN NullPix
    ELSE IF pixs.d # 8 THEN NullPix
    ELSE IF nlevels < 2 \/ nlevels > 256 THEN NullPix
    ELSE LET qtab == IF cmapflag # 0 THEN makeGrayQuantIndexTable(nlevels, 0)
                     ELSE makeGrayQuantTargetTable(nlevels, 8, 0)
             pixd == IF pixGetColormap(pixs) THEN pixRemoveColormap(pixs) ELSE pixs
         IN  [pixd EXCEPT
                 !.cmap = IF cmapflag # 0 THEN pixcmapCreateLinear(8, nlevels) ELSE @,
                 !.data = [y \in 1..pixd.h |-> [x \in 1..pixd.w |->
                              qtab.tab[GetData(pixd.data[y], pixd.d, x - 1, 8)]]]]

(***************************************************************************)
(* Rasters in storage                                                      *)
(*                                                                         *)
(* A PIX * is a handle: 0 for NULL, else the index of a cell of the heap.  *)
(* A cell holds the raster and its reference count.  pixClone hands out    *)
(* the same handle again, so a write through a clone is a write to the     *)
(* raster it was cloned from; pixCopy and pixCreate make a new cell.  Each *)
(* operation below is the entry point of the same name acting on the heap: *)
(* it gives the heap it leaves and the handle it returns.                  *)
(***************************************************************************)

HeapRet(heap, id) == [heap |-> heap, id |-> id]

\* a new cell for a raster, with one reference
HeapNew(heap, pix) ==
    HeapRet(Append(heap, [pix |-> pix, refcount |-> 1]), Len(heap) + 1)

pixCreateIn(heap, w, h, depth) == HeapNew(heap, pixCreate(w, h, depth))

\* pixClone(pixs): the same handle, one more reference
pixCloneIn(heap, pixs) ==
    HeapRet([heap EXCEPT ![pixs].refcount = @ + 1], pixs)

\* pixCopy(NULL, pixs): a new raster with the same contents
pixCopyIn(heap, pixs) == HeapNew(heap, heap[pixs].pix)

\* pixRemoveColormap(pixs, REMOVE_CMAP_TO_GRAYSCALE): a clone of pixs when
\* it has no colormap, else a new raster
pixRemoveColormapIn(heap, pixs) ==
    IF ~pixGetColormap(heap[pixs].pix) THEN pixCloneIn(heap, pixs)
    ELSE HeapNew(heap, pixRemoveColormap(heap[pixs].pix))

\* pixDestroy(&pix): one reference less; the cell is freed at 0
pixDestroyIn(heap, pix) ==
    IF pix = 0 THEN heap ELSE [heap EXCEPT ![pix].refcount = @ - 1]

\* the samples of the raster behind a handle overwritten
WriteData(heap, pix, data) == [heap EXCEPT ![pix].pix.data = data]

pixSetColormap(heap, pix, cmap) == [heap EXCEPT ![pix].pix.cmap = cmap]

pixDitherToBinarySpecIn(heap, pixs, lowerclip, upperclip) ==
    IF pixs = 0 THEN HeapRet(heap, 0)
    ELSE IF heap[pixs].pix.d # 8 THEN HeapRet(heap, 0)
    ELSE IF lowerclip < 0 \/ lowerclip > 255 THEN HeapRet(heap, 0)
    ELSE IF upperclip < 0 \/ upperclip > 255 THEN HeapRet(heap, 0)
    ELSE LET pixd == pixCreateIn(heap, heap[pixs].pix.w, heap[pixs].pix.h, 1)
             pixt == pixRemoveColormapIn(pixd.heap, pixs)
             low == ditherToBinaryLow(pixt.heap[pixd.id].pix, pixt.heap[pixt.id].pix,
                                      lowerclip, upperclip)
         IN  HeapRet(pixDestroyIn(WriteData(pixt.heap, pixd.id, low.data), pixt.id),
                     pixd.id)

pixThresholdToBinaryIn(heap, pixs, thresh) ==
    IF pixs = 0 THEN HeapRet(heap, 0)
    ELSE IF heap[pixs].pix.d # 4 /\ heap[pixs].pix.d # 8 THEN HeapRet(heap, 0)
    ELSE IF thresh < 0 THEN HeapRet(heap, 0)
    ELSE IF heap[pixs].pix.d = 4 /\ thresh > 16 THEN HeapRet(heap, 0)
    ELSE IF heap[pixs].pix.d = 8 /\ thresh > 256 THEN HeapRet(heap, 0)
    ELSE LET pixd == pixCreateIn(heap, heap[pixs].pix.w, heap[pixs].pix.h, 1)
             pixt == pixRemoveColormapIn(pixd.heap, pixs)
             promoted == pixGetColormap(heap[pixs].pix) /\ heap[pixs].pix.d = 4
             low == thresholdToBinaryLow(pixt.heap[pixt.id].pix,
                                         IF promoted THEN 8 ELSE heap[pixs].pix.d,
                                         IF promoted THEN thresh * 16 ELSE thresh)
         IN  HeapRet(pixDestroyIn(WriteData(pixt.heap, pixd.id, low.data), pixt.id),
                     pixd.id)

pixGenerateMaskByValueIn(heap, pixs, val, usecmap) ==
    IF pixs = 0 THEN HeapRet(heap, 0)
    ELSE IF heap[pixs].pix.d # 4 /\ heap[pixs].pix.d # 8 THEN HeapRet(heap, 0)
    ELSE LET pixg == IF usecmap = 0 /\ pixGetColormap(heap[pixs].pix)
                     THEN pixRemoveColormapIn(heap, pixs)
                     ELSE pixCloneIn(heap, pixs)
             g == pixg.heap[pixg.id].pix
         IN  IF g.d = 4 /\ (val < 0 \/ val > 15)
             THEN HeapRet(pixDestroyIn(pixg.heap, pixg.id), 0)
             ELSE IF g.d = 8 /\ (val < 0 \/ val > 255)
             THEN HeapRet(pixDestroyIn(pixg.heap, pixg.id), 0)
             ELSE LET pixd == pixCreateIn(pixg.heap, g.w, g.h, 1)
                      data == [y \in 1..g.h |-> [x \in 1..g.w |->
                                  IF GetData(g.data[y], g.d, x - 1, g.d) = val
                                  THEN 1 ELSE 0]]
                  IN  HeapRet(pixDestroyIn(WriteData(pixd.heap, pixd.id, data), pixg.id),
                              pixd.id)

\* mutant: the new pixd taken as a clone of a source without colormap
pixThresholdOn8bppIn_Clone(heap, pixs, nlevels, cmapflag) ==
    IF pixs = 0 THEN HeapRet(heap, 0)
    ELSE IF heap[pixs].pix.d # 8 THEN HeapRet(heap, 0)
    ELSE IF nlevels < 2 \/ nlevels > 256 THEN HeapRet(heap, 0)
    ELSE LET qtab == IF cmapflag # 0 THEN makeGrayQuantIndexTable(nlevels, 0)
                     ELSE makeGrayQuantTargetTable(nlevels, 8, 0)
             pixd == IF pixGetColormap(heap[pixs].pix)
                     THEN pixRemoveColormapIn(heap, pixs)
                     ELSE pixCloneIn(heap, pixs)
             withcmap == IF cmapflag # 0
                         THEN pixSetColormap(pixd.heap, pixd.id,
                                             pixcmapCreateLinear(8, nlevels))
                         ELSE pixd.heap
             lines == withcmap[pixd.id].pix.data
         IN  HeapRet(WriteData(withcmap, pixd.id,
                         [y \in DOMAIN lines |-> [x \in DOMAIN lines[y] |->
                             qtab.tab[GetData(lines[y], 8, x - 1, 8)]]]),
                     pixd.id)

pixThresholdOn8bppIn(heap, pixs, nlevels, cmapflag) ==
    IF pixs = 0 THEN HeapRet(heap, 0)
    ELSE IF heap[pixs].pix.d # 8 THEN HeapRet(heap, 0)
    ELSE IF nlevels < 2 \/ nlevels > 256 THEN HeapRet(heap, 0)
    ELSE LET qtab == IF cmapflag # 0 THEN makeGrayQuantIndexTable(nlevels, 0)
                     ELSE makeGrayQuantTargetTable(nlevels, 8, 0)
             pixd == IF pixGetColormap(heap[pixs].pix)
                     THEN pixRemoveColormapIn(heap, pixs)
                     ELSE pixCopyIn(heap, pixs)
             withcmap == IF cmapflag # 0
                         THEN pixSetColormap(pixd.heap, pixd.id,
                                             pixcmapCreateLinear(8, nlevels))
                         ELSE pixd.heap
             lines == withcmap[pixd.id].pix.data
         IN  HeapRet(WriteData(withcmap, pixd.id,
                         [y \in DOMAIN lines |-> [x \in DOMAIN lines[y] |->
                             qtab.tab[GetData(lines[y], 8, x - 1, 8)]]]),
                     pixd.id)

(***************************************************************************)
(* The dithering entry points on rasters in storage                        *)
(***************************************************************************)

pixDitherToBinaryLUTIn(heap, pixs, lowerclip, upperclip) ==
    IF pixs = 0 THEN HeapRet(heap, 0)
    ELSE IF heap[pixs].pix.d # 8 THEN HeapRet(heap, 0)
    ELSE LET lower == IF lowerclip < 0 THEN DEFAULT_CLIP_LOWER_1 ELSE lowerclip
             upper == IF upperclip < 0 THEN DEFAULT_CLIP_UPPER_1 ELSE upperclip
             pixd == pixCreateIn(heap, heap[pixs].pix.w, heap[pixs].pix.h, 1)
             pixt == pixRemoveColormapIn(pixd.heap, pixs)
             low == ditherToBinaryLUTLow(pixt.heap[pixd.id].pix, pixt.heap[pixt.id].pix,
                                         make8To1DitherTables(lower, upper))
         IN  HeapRet(pixDestroyIn(WriteData(pixt.heap, pixd.id, low.data), pixt.id),
                     pixd.id)

\* mutant: the lines dithered in pixt itself, without line buffers
pixDitherTo2bppSpecIn_NoLineBuffers(heap, pixs, lowerclip, upperclip, cmapflag) ==
    IF pixs = 0 THEN HeapRet(heap, 0)
    ELSE IF heap[pixs].pix.d # 8 THEN HeapRet(heap, 0)
    ELSE IF lowerclip < 0 \/ lowerclip > 255 THEN HeapRet(heap, 0)
    ELSE IF upperclip < 0 \/ upperclip > 255 THEN HeapRet(heap, 0)
    ELSE LET pixd == pixCreateIn(heap, heap[pixs].pix.w, heap[pixs].pix.h, 2)
             pixt == pixRemoveColormapIn(pixd.heap, pixs)
             low == ditherTo2bppLow(pixt.heap[pixd.id].pix, pixt.heap[pixt.id].pix,
                                    make8To2DitherTables(lowerclip, upperclip))
             written == WriteData(WriteData(pixt.heap, pixd.id, low.data),
                                  pixt.id, low.data)
             mapped == IF cmapflag # 0
                       THEN pixSetColormap(written, pixd.id, pixcmapCreateLinear(2, 4))
                       ELSE written
         IN  HeapRet(pixDestroyIn(mapped, pixt.id), pixd.id)

pixDitherTo2bppSpecIn(heap, pixs, lowerclip, upperclip, cmapflag) ==
    IF pixs = 0 THEN HeapRet(heap, 0)
    ELSE IF heap[pixs].pix.d # 8 THEN HeapRet(heap, 0)
    ELSE IF lowerclip < 0 \/ lowerclip > 255 THEN HeapRet(heap, 0)
    ELSE IF upperclip < 0 \/ upperclip > 255 THEN HeapRet(heap, 0)
    ELSE LET pixd == pixCreateIn(heap, heap[pixs].pix.w, heap[pixs].pix.h, 2)
             pixt == pixRemoveColormapIn(pixd.heap, pixs)
             low == ditherTo2bppLow(pixt.heap[pixd.id].pix, pixt.heap[pixt.id].pix,
                                    make8To2DitherTables(lowerclip, upperclip))
             written == WriteData(pixt.heap, pixd.id, low.data)
             mapped == IF cmapflag # 0
                       THEN pixSetColormap(written, pixd.id, pixcmapCreateLinear(2, 4))
                       ELSE written
         IN  HeapRet(pixDestroyIn(mapped, pixt.id), pixd.id)

(***************************************************************************)
(* Allocations                                                             *)
(*                                                                         *)
(* The entry points below are followed with their allocations: rasters are *)
(* cells of the heap, and blocks is the set of the CALLOCed arrays (and,   *)
(* for makeGrayQuantTableArb, the colormap) not yet freed.  fail names the *)
(* allocation that returns NULL in this call, "none" for none.             *)
(***************************************************************************)

\* what a call leaves: the heap, the arrays not freed, the handle returned
AllocRet(heap, blocks, id) == [heap |-> heap, blocks |-> blocks, id |-> id]

pixDitherToBinarySpecTry(heap, pixs, lowerclip, upperclip, fail) ==
    IF pixs = 0 THEN AllocRet(heap, {}, 0)
    ELSE IF heap[pixs].pix.d # 8 THEN AllocRet(heap, {}, 0)
    ELSE IF lowerclip < 0 \/ lowerclip > 255 THEN AllocRet(heap, {}, 0)
    ELSE IF upperclip < 0 \/ upperclip > 255 THEN AllocRet(heap, {}, 0)
    ELSE IF fail = "pixd" THEN AllocRet(heap, {}, 0)
    ELSE LET pixd == pixCreateIn(heap, heap[pixs].pix.w, heap[pixs].pix.h, 1)
             pixt == pixRemoveColormapIn(pixd.heap, pixs)
         IN  IF fail = "bufs1" THEN AllocRet(pixt.heap, {}, 0)
             ELSE IF fail = "bufs2" THEN AllocRet(pixt.heap, {"bufs1"}, 0)
             ELSE LET low == ditherToBinaryLow(pixt.heap[pixd.id].pix,
                                               pixt.heap[pixt.id].pix,
                                               lowerclip, upperclip)
                  IN  AllocRet(pixDestroyIn(WriteData(pixt.heap, pixd.id, low.data),
                                            pixt.id),
                               {}, pixd.id)

pixThresholdTo2bppTry(heap, pixs, nlevels, cmapflag, fail) ==
    IF pixs = 0 THEN AllocRet(heap, {}, 0)
    ELSE IF heap[pixs].pix.d # 8 THEN AllocRet(heap, {}, 0)
    ELSE IF nlevels < 2 \/ nlevels > 4 THEN AllocRet(heap, {}, 0)
    ELSE LET made == IF cmapflag # 0 THEN makeGrayQuantIndexTable(nlevels, 0)
                     ELSE makeGrayQuantTargetTable(4, 2, 0)
             blocks == {"qtab"}
         IN  IF fail = "pixd" THEN AllocRet(heap, blocks, 0)
             ELSE LET pixd == pixCreateIn(heap, heap[pixs].pix.w, heap[pixs].pix.h, 2)
                      mapped == IF cmapflag # 0
                                THEN pixSetColormap(pixd.heap, pixd.id,
                                                    pixcmapCreateLinear(2, nlevels))
                                ELSE pixd.heap
                      pixt == pixRemoveColormapIn(mapped, pixs)
                      low == thresholdToNbppLow(pixt.heap[pixd.id].pix,
                                                pixt.heap[pixt.id].pix, made)
                  IN  AllocRet(pixDestroyIn(WriteData(pixt.heap, pixd.id, low.data),
                                            pixt.id),
                               blocks \ {"qtab"}, pixd.id)

\* makeGrayQuantTableArb: the value returned, whether *ptab and *pcmap were
\* set, and the allocations not freed
makeGrayQuantTableArbTry(na, outdepth, fail) ==
    IF na.null THEN [ret |-> 1, out |-> {}, blocks |-> {}]
    ELSE IF ArbTooManyBins(numaGetCount(na), outdepth)
         THEN [ret |-> 1, out |-> {}, blocks |-> {}]
    ELSE IF fail = "tab" THEN [ret |-> 1, out |-> {}, blocks |-> {}]
    ELSE IF fail = "cmap" \/ pixcmapCreate(outdepth).null
         THEN [ret |-> 1, out |-> {}, blocks |-> {"tab"}]
    ELSE [ret |-> 0, out |-> {"tab", "cmap"}, blocks |-> {"tab", "cmap"}]

(***************************************************************************)
(* The entry points that take 8 bpp gray, by name                          *)
(***************************************************************************)

GrayInputOps ==
    {"pixDitherToBinarySpec", "pixDitherToBinaryLUT", "pixDitherTo2bppSpec",
     "pixThresholdToBinary", "pixVarThresholdToBinary", "pixThresholdTo2bpp",
     "pixThresholdTo4bpp", "pixThresholdOn8bpp"}

\* the call of entry point op on pixs, the other arguments from a
GrayInputOp(op, pixs, a) ==
    CASE op = "pixDitherToBinarySpec" ->
             pixDitherToBinarySpec(pixs, a.lowerclip, a.upperclip)
      [] op = "pixDitherToBinaryLUT" ->
             pixDitherToBinaryLUT(pixs, a.lowerclip, a.upperclip)
      [] op = "pixDitherTo2bppSpec" ->
             pixDitherTo2bppSpec(pixs, a.lowerclip, a.upperclip, a.cmapflag)
      [] op = "pixThresholdToBinary" -> pixThresholdToBinary(pixs, a.thresh)
      [] op = "pixVarThresholdToBinary" -> pixVarThresholdToBinary(pixs, a.pixg)
      [] op = "pixThresholdTo2bpp" ->
             pixThresholdTo2bpp(pixs, a.nlevels, a.cmapflag)
      [] op = "pixThresholdTo4bpp" ->
             pixThresholdTo4bpp(pixs, a.nlevels, a.cmapflag)
      [] op = "pixThresholdOn8bpp" ->
             pixThresholdOn8bpp(pixs, a.nlevels, a.cmapflag)

(***************************************************************************)
(* Color quantize grayscale image using existing colormap                  *)
(*                                                                         *)
(* The colormap argument is NullColors or a sequence of <<red, green,      *)
(* blue>> entries; the colormap of a raster is kept as its gray values.    *)
(***************************************************************************)

NullColors == [null |-> TRUE, colors |-> <<>>]

MakeColors(colors) == [null |-> FALSE, colors |-> colors]

\* pixcmapHasColor(cmap, &hascolor): some entry is not gray
pixcmapHasColor(cmap) ==
    \E i \in 1..Len(cmap.colors) :
        cmap.colors[i][1] # cmap.colors[i][2] \/ cmap.colors[i][2] # cmap.colors[i][3]

\* pixcmapColorToGray(cmap, 0.3, 0.5, 0.2): the weighted sum of each entry,
\* rounded
pixcmapColorToGray(cmap) ==
    [i \in 1..Len(cmap.colors) |->
        (3 * cmap.colors[i][1] + 5 * cmap.colors[i][2] + 2 * cmap.colors[i][3] + 5) \div 10]

\* pixcmapCopy(cmap) of a gray colormap, as gray values
pixcmapCopy(cmap) == [i \in 1..Len(cmap.colors) |-> cmap.colors[i][1]]

\* pixcmapGetNearestGrayIndex(cmap, val, &index): the first entry (from 0)
\* at the least distance from val
pixcmapGetNearestGrayIndex(grays, val) ==
    CHOOSE index \in 0..(Len(grays) - 1) :
        /\ \A k \in 0..(Len(grays) - 1) :
              L_ABS(grays[index + 1] - val) <= L_ABS(grays[k + 1] - val)
        /\ \A k \in 0..(index - 1) :
              L_ABS(grays[k + 1] - val) > L_ABS(grays[index + 1] - val)

\* pixcmapGetMinDepth(cmap, &mindepth): 2, 4 or 8 by the number of entries
pixcmapGetMinDepth(cmap) ==
    IF Len(cmap.colors) <= 4 THEN 2 ELSE IF Len(cmap.colors) <= 16 THEN 4 ELSE 8

\* what pixGrayQuantFromCmap leaves: the heap, the handle returned and the
\* warning issued ("" for none)
QuantRet(heap, id, warning) == [heap |-> heap, id |-> id, warning |-> warning]

\* mutant: the depth of pixs tested before its colormap
pixGrayQuantFromCmapIn_DepthFirst(heap, pixs, cmap, mindepth) ==
    IF pixs = 0 THEN QuantRet(heap, 0, "")
    ELSE IF heap[pixs].pix.d # 8 THEN QuantRet(heap, 0, "")
    ELSE IF pixGetColormap(heap[pixs].pix)
         THEN QuantRet(pixCopyIn(heap, pixs).heap, pixCopyIn(heap, pixs).id,
                       "pixs already has a colormap; returning a copy")
    ELSE IF cmap.null THEN QuantRet(heap, 0, "")
    ELSE IF mindepth # 2 /\ mindepth # 4 /\ mindepth # 8 THEN QuantRet(heap, 0, "")
    ELSE LET hascolor == pixcmapHasColor(cmap)
             cmapd == IF hascolor THEN pixcmapColorToGray(cmap) ELSE pixcmapCopy(cmap)
             tab == [i \in 0..255 |-> pixcmapGetNearestGrayIndex(cmapd, i)]
             depth == L_MAX(pixcmapGetMinDepth(cmap), mindepth)
             pixd == pixCreateIn(heap, heap[pixs].pix.w, heap[pixs].pix.h, depth)
             lines == heap[pixs].pix.data
         IN  QuantRet(WriteData(pixSetColormap(pixd.heap, pixd.id, cmapd), pixd.id,
                          [y \in DOMAIN lines |-> [x \in DOMAIN lines[y] |->
                              tab[GetData(lines[y], 8, x - 1, 8)] % Shl1(depth)]]),
                      pixd.id,
                      IF hascolor THEN "Converting colormap colors to gray" ELSE "")

pixGrayQuantFromCmapIn(heap, pixs, cmap, mindepth) ==
    IF pixs = 0 THEN QuantRet(heap, 0, "")
    ELSE IF pixGetColormap(heap[pixs].pix)
         THEN QuantRet(pixCopyIn(heap, pixs).heap, pixCopyIn(heap, pixs).id,
                       "pixs already has a colormap; returning a copy")
    ELSE IF heap[pixs].pix.d # 8 THEN QuantRet(heap, 0, "")
    ELSE IF cmap.null THEN QuantRet(heap, 0, "")
    ELSE IF mindepth # 2 /\ mindepth # 4 /\ mindepth # 8 THEN QuantRet(heap, 0, "")
    ELSE LET hascolor == pixcmapHasColor(cmap)
             cmapd == IF hascolor THEN pixcmapColorToGray(cmap) ELSE pixcmapCopy(cmap)
             tab == [i \in 0..255 |-> pixcmapGetNearestGrayIndex(cmapd, i)]
             depth == L_MAX(pixcmapGetMinDepth(cmap), mindepth)
             pixd == pixCreateIn(heap, heap[pixs].pix.w, heap[pixs].pix.h, depth)
             lines == heap[pixs].pix.data
         IN  QuantRet(WriteData(pixSetColormap(pixd.heap, pixd.id, cmapd), pixd.id,
                          [y \in DOMAIN lines |-> [x \in DOMAIN lines[y] |->
                              tab[GetData(lines[y], 8, x - 1, 8)] % Shl1(depth)]]),
                      pixd.id,
                      IF hascolor THEN "Converting colormap colors to gray" ELSE "")

(***************************************************************************)
(* Source rasters the callers draw from                                    *)
(***************************************************************************)

\* the width and height of the rasters of at most maxpix pixels
Shapes(maxpix) ==
    {s \in (1..maxpix) \X (1..maxpix) : s[1] * s[2] <= maxpix}

\* every raster of at most maxpix pixels with samples in vals
Rasters(maxpix, d, cmap, vals) ==
    UNION {{MakePix(s[1], s[2], d, cmap, data) :
                data \in [1..s[2] -> [1..s[1] -> vals]]} : s \in Shapes(maxpix)}

\* a colormap whose gray values are not in index order
GrayCmap == <<200, 0, 90>>

CmapIndices == 0..(Len(GrayCmap) - 1)

\* one raster of each depth the entry points refuse
BadDepthPix == {MakePix(1, 1, d, <<>>, <<(<<1>>)>>) : d \in {1, 2, 32}}

(***************************************************************************)
(* Family "thresh": a caller of pixThresholdToBinary                       *)
(***************************************************************************)

MaxPixThresh == 4

ThreshSources ==
    Rasters(MaxPixThresh, 8, <<>>, {0, 127, 128, 255})
        \cup Rasters(MaxPixThresh, 4, <<>>, {0, 7, 8, 15})
        \cup Rasters(MaxPixThresh, 8, GrayCmap, CmapIndices)
        \cup Rasters(MaxPixThresh, 4, GrayCmap, CmapIndices)
        \cup BadDepthPix \cup {NullPix}

ThreshVals == {0 - 1, 0, 1, 8, 16, 17, 128, 256, 257}

InitThresh ==
    /\ family = "thresh"
    /\ args \in [pixs : ThreshSources, thresh : ThreshVals]
    /\ rets = [thresh |-> NotCalled]

\* pixd = pixThresholdToBinary(pixs, thresh)
CallThresholdToBinary ==
    /\ family = "thresh"
    /\ ~rets.thresh.called
    /\ rets' = [rets EXCEPT !.thresh =
                    [called |-> TRUE,
                     pixd |-> pixThresholdToBinary(args.pixs, args.thresh)]]
    /\ UNCHANGED <<family, args>>

NextThresh == CallThresholdToBinary

SpecThresh == InitThresh /\ [][NextThresh]_vars

(***************************************************************************)
(* Family "var": a caller of pixVarThresholdToBinary                       *)
(***************************************************************************)

MaxPixVar == 2

VarSources ==
    Rasters(MaxPixVar, 8, <<>>, {0, 128, 255})
        \cup Rasters(MaxPixVar, 8, GrayCmap, CmapIndices)
        \cup Rasters(MaxPixVar, 4, <<>>, {0, 15})
        \cup {NullPix}

VarThresholds ==
    Rasters(MaxPixVar, 8, <<>>, {0, 1, 128, 255})
        \cup Rasters(MaxPixVar, 4, <<>>, {8})
        \cup {NullPix}

InitVar ==
    /\ family = "var"
    /\ args \in [pixs : VarSources, pixg : VarThresholds]
    /\ rets = [var |-> NotCalled]

\* pixd = pixVarThresholdToBinary(pixs, pixg)
CallVarThresholdToBinary ==
    /\ family = "var"
    /\ ~rets.var.called
    /\ rets' = [rets EXCEPT !.var =
                    [called |-> TRUE,
                     pixd |-> pixVarThresholdToBinary(args.pixs, args.pixg)]]
    /\ UNCHANGED <<family, args>>

NextVar == CallVarThresholdToBinary

SpecVar == InitVar /\ [][NextVar]_vars

(***************************************************************************)
(* Family "band": a caller of pixGenerateMaskByBand, once in band and once *)
(* out of band on the same source and band                                 *)
(***************************************************************************)

MaxPixBand == 2

BandSources ==
    Rasters(MaxPixBand, 8, <<>>, {40, 50, 75, 100, 101})
        \cup Rasters(MaxPixBand, 4, <<>>, {0, 3, 7, 15})
        \cup Rasters(MaxPixBand, 8, GrayCmap, CmapIndices)
        \cup Rasters(MaxPixBand, 4, GrayCmap, CmapIndices)
        \cup BadDepthPix \cup {NullPix}

BandLowers == {0 - 1, 0, 3, 50, 101}

BandUppers == {2, 7, 15, 16, 100, 255, 256}

InitBand ==
    /\ family = "band"
    /\ args \in [pixs : BandSources, lower : BandLowers, upper : BandUppers,
                  inband : {1, 2}, usecmap : {0, 1}]
    /\ rets = [inband |-> NotCalled, outband |-> NotCalled]

\* pixd = pixGenerateMaskByBand(pixs, lower, upper, inband, usecmap)
CallMaskInBand ==
    /\ family = "band"
    /\ ~rets.inband.called
    /\ rets' = [rets EXCEPT !.inband =
                    [called |-> TRUE,
                     pixd |-> pixGenerateMaskByBand(args.pixs, args.lower,
                                  args.upper, args.inband, args.usecmap)]]
    /\ UNCHANGED <<family, args>>

\* pixd = pixGenerateMaskByBand(pixs, lower, upper, 0, usecmap)
CallMaskOutBand ==
    /\ family = "band"
    /\ ~rets.outband.called
    /\ rets' = [rets EXCEPT !.outband =
                    [called |-> TRUE,
                     pixd |-> pixGenerateMaskByBand(args.pixs, args.lower,
                                  args.upper, 0, args.usecmap)]]
    /\ UNCHANGED <<family, args>>

NextBand == CallMaskInBand \/ CallMaskOutBand

SpecBand == InitBand /\ [][NextBand]_vars

(***************************************************************************)
(* Family "value": a caller of pixGenerateMaskByValue                      *)
(***************************************************************************)

MaxPixValue == 2

ValueSources ==
    Rasters(MaxPixValue, 8, <<>>, {0, 15, 90, 255})
        \cup Rasters(MaxPixValue, 4, <<>>, {0, 3, 15})
        \cup Rasters(MaxPixValue, 8, GrayCmap, CmapIndices)
        \cup Rasters(MaxPixValue, 4, GrayCmap, CmapIndices)
        \cup BadDepthPix \cup {NullPix}

ValueVals == {0 - 1, 0, 1, 3, 15, 16, 90, 200, 255, 256}

InitValue ==
    /\ family = "value"
    /\ args \in [pixs : ValueSources, val : ValueVals, usecmap : {0, 1}]
    /\ rets = [mask |-> NotCalled]

\* pixd = pixGenerateMaskByValue(pixs, val, usecmap)
CallMaskByValue ==
    /\ family = "value"
    /\ ~rets.mask.called
    /\ rets' = [rets EXCEPT !.mask =
                    [called |-> TRUE,
                     pixd |-> pixGenerateMaskByValue(args.pixs, args.val,
                                                     args.usecmap)]]
    /\ UNCHANGED <<family, args>>

NextValue == CallMaskByValue

SpecValue == InitValue /\ [][NextValue]_vars

(***************************************************************************)
(* Families "band32" and "discr32": callers of the two 32 bpp masks        *)
(***************************************************************************)

MaxPixRgb == 2

\* 32 bpp samples around the references, with two values of the fourth byte
Pixels32 ==
    {<<r, g, 100, a>> : r \in {90, 100, 103}, g \in {100, 106}, a \in {0, 255}}

RgbSources ==
    Rasters(MaxPixRgb, 32, <<>>, Pixels32)
        \cup {MakePix(1, 1, d, <<>>, <<(<<1>>)>>) : d \in {1, 8}} \cup {NullPix}

Band32Refs == {<<100, 100, 100, 0>>, <<100, 100, 100, 255>>, <<95, 103, 100, 7>>}

Band32Dels == {0 - 1, 0, 5, 10, INT_MAX}

InitBand32 ==
    /\ family = "band32"
    /\ args \in [pixs : RgbSources, refval : Band32Refs, delm : Band32Dels,
                  delp : Band32Dels]
    /\ rets = [mask |-> NotCalled]

\* pixd = pixGenerateMaskByBand32(pixs, refval, delm, delp)
CallMaskByBand32 ==
    /\ family = "band32"
    /\ ~rets.mask.called
    /\ \E ubwrap \in BOOLEAN :
          /\ ubwrap \/ Band32Overflows(args.refval, args.delp)
          /\ rets' = [rets EXCEPT !.mask =
                         [called |-> TRUE,
                          pixd |-> pixGenerateMaskByBand32(args.pixs, args.refval,
                                       args.delm, args.delp, ubwrap)]]
    /\ UNCHANGED <<family, args>>

NextBand32 == CallMaskByBand32

SpecBand32 == InitBand32 /\ [][NextBand32]_vars

Discr32Refs1 == {<<103, 100, 100, 0>>, <<90, 100, 100, 0>>, <<90, 100, 100, 255>>}

Discr32Refs2 == {<<102, 102, 100, 0>>, <<110, 100, 100, 0>>}

InitDiscr32 ==
    /\ family = "discr32"
    /\ args \in [pixs : RgbSources, refval1 : Discr32Refs1,
                  refval2 : Discr32Refs2, distflag : 0..3]
    /\ rets = [mask |-> NotCalled]

\* pixd = pixGenerateMaskByDiscr32(pixs, refval1, refval2, distflag)
CallMaskByDiscr32 ==
    /\ family = "discr32"
    /\ ~rets.mask.called
    /\ rets' = [rets EXCEPT !.mask =
                    [called |-> TRUE,
                     pixd |-> pixGenerateMaskByDiscr32(args.pixs, args.refval1,
                                  args.refval2, args.distflag)]]
    /\ UNCHANGED <<family, args>>

NextDiscr32 == CallMaskByDiscr32

SpecDiscr32 == InitDiscr32 /\ [][NextDiscr32]_vars

(***************************************************************************)
(* Family "quant": a caller of pixThresholdTo2bpp or pixThresholdTo4bpp,   *)
(* twice on the same source with two level counts                          *)
(***************************************************************************)

MaxPixQuant == 2

QuantSources ==
    Rasters(MaxPixQuant, 8, <<>>, {0, 42, 43, 128, 255})
        \cup Rasters(MaxPixQuant, 8, GrayCmap, CmapIndices)
        \cup BadDepthPix \cup {NullPix}

QuantLevels == {1, 2, 3, 4, 5, 16, 17}

InitQuant ==
    /\ family = "quant"
    /\ args \in [pixs : QuantSources, outdepth : {2, 4}, cmapflag : {0, 1},
                  nlevels : QuantLevels, nlevels2 : {2, 3, 16}]
    /\ rets = [first |-> NotCalled, second |-> NotCalled]

ThresholdTo(outdepth, pixs, nlevels, cmapflag) ==
    IF outdepth = 2 THEN pixThresholdTo2bpp(pixs, nlevels, cmapflag)
    ELSE pixThresholdTo4bpp(pixs, nlevels, cmapflag)

\* pixd = pixThresholdTo2bpp(pixs, nlevels, cmapflag), resp. To4bpp
CallThresholdFirst ==
    /\ family = "quant"
    /\ ~rets.first.called
    /\ rets' = [rets EXCEPT !.first =
                    [called |-> TRUE,
                     pixd |-> ThresholdTo(args.outdepth, args.pixs,
                                          args.nlevels, args.cmapflag)]]
    /\ UNCHANGED <<family, args>>

\* pixd = pixThresholdTo2bpp(pixs, nlevels2, cmapflag), resp. To4bpp
CallThresholdSecond ==
    /\ family = "quant"
    /\ ~rets.second.called
    /\ rets' = [rets EXCEPT !.second =
                    [called |-> TRUE,
                     pixd |-> ThresholdTo(args.outdepth, args.pixs,
                                          args.nlevels2, args.cmapflag)]]
    /\ UNCHANGED <<family, args>>

NextQuant == CallThresholdFirst \/ CallThresholdSecond

SpecQuant == InitQuant /\ [][NextQuant]_vars

\* the target table builder and the thresholders that use it
SpecTargetQuant ==
    (InitTarget \/ InitQuant) /\ [][CallTargetTable \/ NextQuant]_vars

(***************************************************************************)
(* Family "dither": a caller of the two binary dithering entry points on   *)
(* the same source and clip distances                                      *)
(***************************************************************************)

MaxPixDither == 4

DitherSources ==
    Rasters(MaxPixDither, 8, <<>>, {8, 100, 126, 250})
        \cup Rasters(MaxPixDither - 2, 8, GrayCmap, CmapIndices)
        \cup BadDepthPix \cup {NullPix}

DitherLowerClips == {0 - 1, 0, 10, 200, 256}

DitherUpperClips == {0 - 1, 0, 10, 256}

InitDither ==
    /\ family = "dither"
    /\ args \in [pixs : DitherSources, lowerclip : DitherLowerClips,
                  upperclip : DitherUpperClips]
    /\ rets = [spec |-> NotCalled, lut |-> NotCalled]

\* pixd = pixDitherToBinarySpec(pixs, lowerclip, upperclip)
CallDitherToBinarySpec ==
    /\ family = "dither"
    /\ ~rets.spec.called
    /\ rets' = [rets EXCEPT !.spec =
                    [called |-> TRUE,
                     pixd |-> pixDitherToBinarySpec(args.pixs, args.lowerclip,
                                                    args.upperclip)]]
    /\ UNCHANGED <<family, args>>

\* pixd = pixDitherToBinaryLUT(pixs, lowerclip, upperclip)
CallDitherToBinaryLUT ==
    /\ family = "dither"
    /\ ~rets.lut.called
    /\ rets' = [rets EXCEPT !.lut =
                    [called |-> TRUE,
                     pixd |-> pixDitherToBinaryLUT(args.pixs, args.lowerclip,
                                                   args.upperclip)]]
    /\ UNCHANGED <<family, args>>

NextDither == CallDitherToBinarySpec \/ CallDitherToBinaryLUT

SpecDither == InitDither /\ [][NextDither]_vars

(***************************************************************************)
(* Family "arb": a caller of makeGrayQuantTableArb                         *)
(***************************************************************************)

MaxBoundaries == 5

BoundaryVals == {0, 1, 60, 101, 200, 255}

\* the members of a set of numbers in increasing order
SortedSeq(S) ==
    CHOOSE seq \in [1..Cardinality(S) -> S] :
        \A i \in 1..(Cardinality(S) - 1) : seq[i] < seq[i + 1]

\* every strictly increasing sequence of at most MaxBoundaries boundaries,
\* some sequences that are not, and no array at all
ArbNumas ==
    {MakeNuma(SortedSeq(S)) :
        S \in {T \in SUBSET BoundaryVals : Cardinality(T) <= MaxBoundaries}}
        \cup {MakeNuma(<<101, 60>>), MakeNuma(<<60, 60>>), NullNuma}

ArbDepths == {1, 2, 4, 8}

InitArb ==
    /\ family = "arb"
    /\ args \in [na : ArbNumas, outdepth : ArbDepths]
    /\ rets = [arb |-> NotCalled]

\* ret = makeGrayQuantTableArb(na, outdepth, &tab, &cmap)
CallTableArb ==
    /\ family \in {"arb", "arbave"}
    /\ ~rets.arb.called
    /\ rets' = [rets EXCEPT !.arb = makeGrayQuantTableArb(args.na, args.outdepth)]
    /\ UNCHANGED <<family, args>>

NextArb == CallTableArb

SpecArb == InitArb /\ [][NextArb]_vars

(***************************************************************************)
(* Family "arbave": a caller that builds the table of a boundary sequence  *)
(* and then the colormap of bin averages of a raster                       *)
(***************************************************************************)

MaxPixArb == 2

ArbAveNumas ==
    {MakeNuma(b) : b \in {<<>>, <<101>>, <<60, 101>>, <<0, 101>>, <<0, 1>>,
                          <<1, 60, 200>>, <<60, 255>>}}

ArbAveSources ==
    Rasters(MaxPixArb, 8, <<>>, {0, 30, 70, 200})
        \cup {MakePix(1, 1, 4, <<>>, <<(<<1>>)>>), NullPix}

InitArbAve ==
    /\ family = "arbave"
    /\ args \in [na : ArbAveNumas, outdepth : {1, 2, 4}, pixs : ArbAveSources]
    /\ rets = [arb |-> NotCalled, ave |-> NotCalled]

\* ret = makeGrayQuantColormapArb(pixs, tab, outdepth, &cmap), tab from a
\* successful makeGrayQuantTableArb
CallColormapArb ==
    /\ family = "arbave"
    /\ rets.arb.called /\ rets.arb.ret = 0
    /\ ~rets.ave.called
    /\ rets' = [rets EXCEPT !.ave =
                   makeGrayQuantColormapArb(args.pixs, rets.arb.tab, args.outdepth)]
    /\ UNCHANGED <<family, args>>

NextArbAve == CallTableArb \/ CallColormapArb

SpecArbAve == InitArbAve /\ [][NextArbAve]_vars

(***************************************************************************)
(* Family "frame": a caller that keeps one source raster in storage and    *)
(* runs up to MaxCalls operations on it, one after the other               *)
(***************************************************************************)

MaxPixFrame == 2

MaxCalls == 2

FrameSources ==
    Rasters(MaxPixFrame, 8, <<>>, {0, 200})
        \cup Rasters(MaxPixFrame - 1, 8, GrayCmap, CmapIndices)
        \cup Rasters(MaxPixFrame - 1, 4, <<>>, {3, 15})
        \cup Rasters(MaxPixFrame - 1, 4, GrayCmap, CmapIndices)
        \cup {NullPix}

FrameClips == {10, 256}

FrameThreshs == {128, 300}

FrameVals == {3, 200, 256}

FrameLevels == {1, 3}

\* the handle of the source: the first cell, or NULL
FrameSource == IF args.pixs.null THEN 0 ELSE 1

InitFrame ==
    /\ family = "frame"
    /\ args \in [pixs : FrameSources]
    /\ rets = [heap |-> IF args.pixs.null THEN <<>>
                         ELSE <<[pix |-> args.pixs, refcount |-> 1]>>,
               calls |-> 0, last |-> 0]

\* the heap and the handle a call left, and one call more
AfterCall(ret) ==
    /\ rets' = [heap |-> ret.heap, calls |-> rets.calls + 1, last |-> ret.id]
    /\ UNCHANGED <<family, args>>

\* pixd = pixDitherToBinarySpec(pixs, lowerclip, upperclip)
CallDitherIn ==
    /\ family = "frame" /\ rets.calls < MaxCalls
    /\ \E lowerclip \in FrameClips, upperclip \in {10} :
          AfterCall(pixDitherToBinarySpecIn(rets.heap, FrameSource, lowerclip, upperclip))

\* pixd = pixThresholdToBinary(pixs, thresh)
CallThresholdIn ==
    /\ family = "frame" /\ rets.calls < MaxCalls
    /\ \E thresh \in FrameThreshs :
          AfterCall(pixThresholdToBinaryIn(rets.heap, FrameSource, thresh))

\* pixd = pixGenerateMaskByValue(pixs, val, usecmap)
CallMaskByValueIn ==
    /\ family = "frame" /\ rets.calls < MaxCalls
    /\ \E val \in FrameVals, usecmap \in {0, 1} :
          AfterCall(pixGenerateMaskByValueIn(rets.heap, FrameSource, val, usecmap))

\* pixd = pixThresholdOn8bpp(pixs, nlevels, cmapflag)
CallThresholdOn8bppIn ==
    /\ family = "frame" /\ rets.calls < MaxCalls
    /\ \E nlevels \in FrameLevels, cmapflag \in {0, 1} :
          AfterCall(pixThresholdOn8bppIn(rets.heap, FrameSource, nlevels, cmapflag))

NextFrame ==
    CallDitherIn \/ CallThresholdIn \/ CallMaskByValueIn \/ CallThresholdOn8bppIn

SpecFrame == InitFrame /\ [][NextFrame]_vars

(***************************************************************************)
(* Family "fromcmap": a caller of pixGrayQuantFromCmap on a raster in      *)
(* storage                                                                 *)
(***************************************************************************)

MaxPixFromCmap == 2

FromCmapSources ==
    Rasters(MaxPixFromCmap, 8, GrayCmap, CmapIndices)
        \cup Rasters(MaxPixFromCmap, 4, GrayCmap, CmapIndices)
        \cup Rasters(MaxPixFromCmap, 8, <<>>, {0, 100, 255})
        \cup Rasters(MaxPixFromCmap - 1, 4, <<>>, {3})
        \cup {NullPix}

FromCmapColors ==
    {NullColors,
     MakeColors(<<(<<0, 0, 0>>), (<<128, 128, 128>>), (<<255, 255, 255>>)>>),
     MakeColors(<<(<<250, 0, 0>>), (<<0, 0, 0>>)>>)}

FromCmapDepths == {2, 3, 4, 8}

InitFromCmap ==
    /\ family = "fromcmap"
    /\ args \in [pixs : FromCmapSources, cmap : FromCmapColors,
                  mindepth : FromCmapDepths]
    /\ rets = [heap |-> IF args.pixs.null THEN <<>>
                         ELSE <<[pix |-> args.pixs, refcount |-> 1]>>,
               quant |-> NotCalled]

\* pixd = pixGrayQuantFromCmap(pixs, cmap, mindepth)
CallGrayQuantFromCmap ==
    /\ family = "fromcmap"
    /\ ~rets.quant.called
    /\ LET ret == pixGrayQuantFromCmapIn(rets.heap, FrameSource, args.cmap,
                                         args.mindepth)
       IN  rets' = [heap |-> ret.heap,
                    quant |-> [called |-> TRUE, id |-> ret.id,
                               warning |-> ret.warning]]
    /\ UNCHANGED <<family, args>>

NextFromCmap == CallGrayQuantFromCmap

SpecFromCmap == InitFromCmap /\ [][NextFromCmap]_vars

(***************************************************************************)
(* Family "step": one dithering pass of ditherToBinaryLow or               *)
(* ditherToBinaryLUTLow over an 8 bpp raster, followed one pixel at a time *)
(***************************************************************************)

MaxPixStep == 4

StepSources == Rasters(MaxPixStep, 8, <<>>, {8, 100, 130, 250})

StepLowerClips == {0, 10, 200}

StepUpperClips == {0, 10, 200}

StepKernel(lut, lowerclip, upperclip) ==
    IF lut THEN [lut |-> TRUE, tabs |-> make8To1DitherTables(lowerclip, upperclip)]
    ELSE [lut |-> FALSE, lowerclip |-> lowerclip, upperclip |-> upperclip]

\* mutant: bufs2 filled from the line being dithered
StepLineBelow_SameLine(pixt, y) ==
    IF y >= pixt.h THEN [x \in 1..pixt.w |-> 0] ELSE pixt.data[y]

\* bufs2 while line y (from 1) is dithered: the line below, if there is one
StepLineBelow(pixt, y) ==
    IF y >= pixt.h THEN [x \in 1..pixt.w |-> 0] ELSE pixt.data[y + 1]

InitStep ==
    /\ family = "step"
    /\ \E pixt \in StepSources, lut \in BOOLEAN,
          lowerclip \in StepLowerClips, upperclip \in StepUpperClips :
          /\ args = [pixt |-> pixt, lowerclip |-> lowerclip, upperclip |-> upperclip,
                     kern |-> StepKernel(lut, lowerclip, upperclip)]
          /\ rets = [y |-> 1, j |-> 0, bufs1 |-> pixt.data[1],
                     bufs2 |-> StepLineBelow(pixt, 1), step |-> NotCalled,
                     visits |-> <<>>]

\* the body of the loop over the columns for pixel j of line y, and at the
\* end of a line the move to the next line: bufs2 becomes bufs1 and the line
\* below is copied to bufs2; visits keeps the pixels dithered so far
DitherStep ==
    /\ family = "step"
    /\ rets.y <= args.pixt.h
    /\ LET w == args.pixt.w
           lastline == rets.y = args.pixt.h
           before == [bufs1 |-> rets.bufs1, bufs2 |-> rets.bufs2, lined |-> <<>>]
           after == DitherPixel(before, rets.j, w, lastline, args.kern)
           endline == rets.j = w - 1
       IN  rets' = [y |-> IF endline THEN rets.y + 1 ELSE rets.y,
                    j |-> IF endline THEN 0 ELSE rets.j + 1,
                    bufs1 |-> IF endline THEN after.bufs2 ELSE after.bufs1,
                    bufs2 |-> IF endline THEN StepLineBelow(args.pixt, rets.y + 1)
                              ELSE after.bufs2,
                    step |-> [called |-> TRUE, j |-> rets.j, lastline |-> lastline,
                              before |-> before, after |-> after],
                    visits |-> Append(rets.visits, <<rets.y, rets.j>>)]
    /\ UNCHANGED <<family, args>>

NextStep == DitherStep

SpecStep == InitStep /\ [][NextStep]_vars

(***************************************************************************)
(* Family "clip": a caller of the three dithering entry points with clip   *)
(* distances in and out of [0,255]                                         *)
(***************************************************************************)

MaxPixClip == 2

ClipSources ==
    Rasters(MaxPixClip, 8, <<>>, {8, 100, 130})
        \cup Rasters(MaxPixClip, 8, GrayCmap, CmapIndices)
        \cup BadDepthPix \cup {NullPix}

ClipDistances == {0 - 1, 0, 10, 255, 256}

InitClip ==
    /\ family = "clip"
    /\ args \in [pixs : ClipSources, lowerclip : ClipDistances,
                  upperclip : ClipDistances, cmapflag : {0, 1}]
    /\ rets = [spec |-> NotCalled, lut |-> NotCalled, two |-> NotCalled]

\* pixd = pixDitherToBinarySpec(pixs, lowerclip, upperclip)
CallClipToBinarySpec ==
    /\ family = "clip"
    /\ ~rets.spec.called
    /\ rets' = [rets EXCEPT !.spec =
                    [called |-> TRUE,
                     pixd |-> pixDitherToBinarySpec(args.pixs, args.lowerclip,
                                                    args.upperclip)]]
    /\ UNCHANGED <<family, args>>

\* pixd = pixDitherToBinaryLUT(pixs, lowerclip, upperclip)
CallClipToBinaryLUT ==
    /\ family = "clip"
    /\ ~rets.lut.called
    /\ rets' = [rets EXCEPT !.lut =
                    [called |-> TRUE,
                     pixd |-> pixDitherToBinaryLUT(args.pixs, args.lowerclip,
                                                   args.upperclip)]]
    /\ UNCHANGED <<family, args>>

\* pixd = pixDitherTo2bppSpec(pixs, lowerclip, upperclip, cmapflag)
CallClipTo2bppSpec ==
    /\ family = "clip"
    /\ ~rets.two.called
    /\ rets' = [rets EXCEPT !.two =
                    [called |-> TRUE,
                     pixd |-> pixDitherTo2bppSpec(args.pixs, args.lowerclip,
                                                  args.upperclip, args.cmapflag)]]
    /\ UNCHANGED <<family, args>>

NextClip == CallClipToBinarySpec \/ CallClipToBinaryLUT \/ CallClipTo2bppSpec

SpecClip == InitClip /\ [][NextClip]_vars

(***************************************************************************)
(* Family "twice": a caller that keeps one source raster in storage and    *)
(* dithers it up to MaxTwice times with the same clip distances            *)
(***************************************************************************)

MaxPixTwice == 2

MaxTwice == 2

TwiceSources ==
    Rasters(MaxPixTwice, 8, <<>>, {8, 100, 130})
        \cup Rasters(MaxPixTwice, 8, GrayCmap, CmapIndices)
        \cup BadDepthPix \cup {NullPix}

TwiceClips == {0, 10, 256}

InitTwice ==
    /\ family = "twice"
    /\ args \in [pixs : TwiceSources, lowerclip : TwiceClips,
                  upperclip : TwiceClips, cmapflag : {0, 1}]
    /\ rets = [heap |-> IF args.pixs.null THEN <<>>
                         ELSE <<[pix |-> args.pixs, refcount |-> 1]>>,
               outs |-> <<>>]

\* the heap a call left, and its name and the handle it returned kept
AfterDither(op, ret) ==
    /\ rets' = [heap |-> ret.heap, outs |-> Append(rets.outs, [op |-> op, id |-> ret.id])]
    /\ UNCHANGED <<family, args>>

\* pixd = pixDitherToBinarySpec(pixs, lowerclip, upperclip)
CallTwiceBinarySpec ==
    /\ family = "twice" /\ Len(rets.outs) < MaxTwice
    /\ AfterDither("spec", pixDitherToBinarySpecIn(rets.heap, FrameSource,
                                                   args.lowerclip, args.upperclip))

\* pixd = pixDitherToBinaryLUT(pixs, lowerclip, upperclip)
CallTwiceBinaryLUT ==
    /\ family = "twice" /\ Len(rets.outs) < MaxTwice
    /\ AfterDither("lut", pixDitherToBinaryLUTIn(rets.heap, FrameSource,
                                                 args.lowerclip, args.upperclip))

\* pixd = pixDitherTo2bppSpec(pixs, lowerclip, upperclip, cmapflag)
CallTwice2bppSpec ==
    /\ family = "twice" /\ Len(rets.outs) < MaxTwice
    /\ AfterDither("two", pixDitherTo2bppSpecIn(rets.heap, FrameSource, args.lowerclip,
                                                args.upperclip, args.cmapflag))

NextTwice == CallTwiceBinarySpec \/ CallTwiceBinaryLUT \/ CallTwice2bppSpec

SpecTwice == InitTwice /\ [][NextTwice]_vars

(***************************************************************************)
(* Family "gray": a caller of one of the entry points that take 8 bpp      *)
(* gray, on a source with a colormap                                       *)
(***************************************************************************)

MaxPixGray == 2

GraySources == Rasters(MaxPixGray, 8, GrayCmap, CmapIndices)

GrayThresholds == Rasters(MaxPixGray, 8, <<>>, {1, 100})

InitGray ==
    /\ family = "gray"
    /\ args \in [pixs : GraySources, pixg : GrayThresholds, thresh : {1, 100},
                  nlevels : {2, 3, 4}, cmapflag : {0, 1},
                  lowerclip : {10}, upperclip : {10}]
    /\ args.pixg.w = args.pixs.w /\ args.pixg.h = args.pixs.h
    /\ rets = NotCalled

\* pixd = op(pixs, ...), the arguments valid for each op
CallGrayInput ==
    /\ family = "gray"
    /\ ~rets.called
    /\ \E op \in GrayInputOps :
           rets' = [called |-> TRUE, op |-> op,
                    pixd |-> GrayInputOp(op, args.pixs, args)]
    /\ UNCHANGED <<family, args>>

NextGray == CallGrayInput

SpecGray == InitGray /\ [][NextGray]_vars

(***************************************************************************)
(* Family "on8": a caller of pixThresholdOn8bpp, and once more on the      *)
(* raster it returned                                                      *)
(***************************************************************************)

MaxPixOn8 == 2

On8Sources ==
    Rasters(MaxPixOn8, 8, <<>>, {0, 37, 130, 255})
        \cup Rasters(MaxPixOn8 - 1, 8, GrayCmap, CmapIndices)
        \cup BadDepthPix \cup {NullPix}

On8Levels == {1, 2, 3, 132, 256, 257}

InitOn8 ==
    /\ family = "on8"
    /\ args \in [pixs : On8Sources, nlevels : On8Levels, cmapflag : {0, 1}]
    /\ rets = [once |-> NotCalled, twice |-> NotCalled]

\* pixd = pixThresholdOn8bpp(pixs, nlevels, cmapflag)
CallOn8bpp ==
    /\ family = "on8"
    /\ ~rets.once.called
    /\ rets' = [rets EXCEPT !.once =
                    [called |-> TRUE,
                     pixd |-> pixThresholdOn8bpp(args.pixs, args.nlevels,
                                                 args.cmapflag)]]
    /\ UNCHANGED <<family, args>>

\* pixd2 = pixThresholdOn8bpp(pixd, nlevels, cmapflag)
CallOn8bppAgain ==
    /\ family = "on8"
    /\ rets.once.called /\ ~rets.twice.called
    /\ rets' = [rets EXCEPT !.twice =
                    [called |-> TRUE,
                     pixd |-> pixThresholdOn8bpp(rets.once.pixd, args.nlevels,
                                                 args.cmapflag)]]
    /\ UNCHANGED <<family, args>>

NextOn8 == CallOn8bpp \/ CallOn8bppAgain

SpecOn8 == InitOn8 /\ [][NextOn8]_vars

\* the entry points that store colormap indices, and the table builder for
\* arbitrary bins
SpecIndexed ==
    (InitQuant \/ InitOn8 \/ InitArb) /\ [][NextQuant \/ NextOn8 \/ NextArb]_vars

\* the target table builder and pixThresholdOn8bpp
SpecOn8Target ==
    (InitTarget \/ InitOn8) /\ [][CallTargetTable \/ NextOn8]_vars

(***************************************************************************)
(* Family "alloc": a caller that keeps one source raster in storage and    *)
(* makes one call in which one allocation may fail                         *)
(***************************************************************************)

MaxPixAlloc == 2

AllocSources ==
    Rasters(MaxPixAlloc, 8, <<>>, {8, 130})
        \cup Rasters(MaxPixAlloc, 8, GrayCmap, CmapIndices)
        \cup BadDepthPix \cup {NullPix}

AllocNumas == {NullNuma, MakeNuma(<<>>), MakeNuma(<<60, 101>>),
               MakeNuma(<<1, 60, 101, 200>>)}

InitAlloc ==
    /\ family = "alloc"
    /\ args \in [pixs : AllocSources, na : AllocNumas]
    /\ rets = [called |-> FALSE]

\* pixd = pixDitherToBinarySpec(pixs, lowerclip, upperclip)
CallDitherTry ==
    /\ family = "alloc" /\ ~rets.called
    /\ \E lowerclip \in {10, 256}, fail \in {"none", "pixd", "bufs1", "bufs2"} :
          LET ret == pixDitherToBinarySpecTry(
                         IF args.pixs.null THEN <<>>
                         ELSE <<[pix |-> args.pixs, refcount |-> 1]>>,
                         FrameSource, lowerclip, 10, fail)
          IN  rets' = [called |-> TRUE, op |-> "pixDitherToBinarySpec",
                       heap |-> ret.heap, blocks |-> ret.blocks,
                       failed |-> ret.id = 0,
                       out |-> IF ret.id = 0 THEN {} ELSE {ret.id}, kept |-> {}]
    /\ UNCHANGED <<family, args>>

\* pixd = pixThresholdTo2bpp(pixs, nlevels, cmapflag)
CallTo2bppTry ==
    /\ family = "alloc" /\ ~rets.called
    /\ \E nlevels \in {1, 3}, cmapflag \in {0, 1}, fail \in {"none", "pixd"} :
          LET ret == pixThresholdTo2bppTry(
                         IF args.pixs.null THEN <<>>
                         ELSE <<[pix |-> args.pixs, refcount |-> 1]>>,
                         FrameSource, nlevels, cmapflag, fail)
          IN  rets' = [called |-> TRUE, op |-> "pixThresholdTo2bpp",
                       heap |-> ret.heap, blocks |-> ret.blocks,
                       failed |-> ret.id = 0,
                       out |-> IF ret.id = 0 THEN {} ELSE {ret.id}, kept |-> {}]
    /\ UNCHANGED <<family, args>>

\* ret = makeGrayQuantTableArb(na, outdepth, &tab, &cmap)
CallArbTry ==
    /\ family = "alloc" /\ ~rets.called
    /\ \E outdepth \in {1, 2, 3, 4}, fail \in {"none", "tab", "cmap"} :
          LET ret == makeGrayQuantTableArbTry(args.na, outdepth, fail)
          IN  rets' = [called |-> TRUE, op |-> "makeGrayQuantTableArb",
                       heap |-> IF args.pixs.null THEN <<>>
                                ELSE <<[pix |-> args.pixs, refcount |-> 1]>>,
                       blocks |-> ret.blocks, failed |-> ret.ret # 0,
                       out |-> {}, kept |-> ret.out]
    /\ UNCHANGED <<family, args>>

NextAlloc == CallDitherTry \/ CallTo2bppTry \/ CallArbTry

SpecAlloc == InitAlloc /\ [][NextAlloc]_vars

(***************************************************************************)
(* Properties of the linear table builders                                 *)
(***************************************************************************)

\* the representative threshold t_j = floor(255 (2j+1) / (2 levels - 2))
RepThresh(j, levels) == (255 * (2 * j + 1)) \div (2 * levels - 2)

\* C2: for levels in [2,256] and every v in [0,255] the index table maps v
\* to the smallest j in [0, levels) whose threshold t_j is >= v.
C2_IndexIsSmallestLevel ==
    (family = "index" /\ rets.index.called /\ args.nlevels \in 2..256) =>
        /\ ~rets.index.null
        /\ \A v \in 0..255 :
              LET j == rets.index.tab[v]
              IN  /\ j \in 0..(args.nlevels - 1)
                  /\ RepThresh(j, args.nlevels) >= v
                  /\ \A k \in 0..(j - 1) : RepThresh(k, args.nlevels) < v

\* three levels: thresholds 63 and 191
C2_Witness ==
    /\ family = "index" /\ rets.index.called /\ args.nlevels = 3
    /\ ~rets.index.null
    /\ rets.index.tab[63] = 0 /\ rets.index.tab[64] = 1
    /\ rets.index.tab[191] = 1 /\ rets.index.tab[192] = 2

\* C3: for n in [2,256] the index table is non-decreasing in the input value
\* and its last entry is n - 1.
C3_IndexMonotone ==
    (family = "index" /\ rets.index.called /\ args.nlevels \in 2..256) =>
        /\ ~rets.index.null
        /\ \A v \in 0..254 : rets.index.tab[v] <= rets.index.tab[v + 1]
        /\ rets.index.tab[255] = args.nlevels - 1

C3_Witness ==
    /\ family = "index" /\ rets.index.called /\ args.nlevels = 129
    /\ ~rets.index.null
    /\ rets.index.tab[0] = 0 /\ rets.index.tab[255] = 128

\* C4: for depth in {2,4,8} and n in [2, 2^depth] every entry of the target
\* table lies in [0, 2^depth - 1].
C4_TargetInRange ==
    (/\ family = "target" /\ rets.target.called
     /\ args.depth \in {2, 4, 8}
     /\ args.nlevels \in 2..(2 ^ args.depth)) =>
        /\ ~rets.target.null
        /\ \A v \in 0..255 : rets.target.tab[v] \in 0..(2 ^ args.depth - 1)

C4_Witness ==
    /\ family = "target" /\ rets.target.called
    /\ args.depth = 8 /\ args.nlevels = 3
    /\ ~rets.target.null
    /\ rets.target.tab[0] = 0 /\ rets.target.tab[100] = 127
    /\ rets.target.tab[255] = 255

\* C5: below 8 bpp the target table does not depend on the requested level
\* count, makeGrayQuantTargetTable(n, depth) = makeGrayQuantTargetTable(
\* 2^depth, depth) for every n, so pixThresholdTo2bpp and pixThresholdTo4bpp
\* without a colormap give the same raster for every valid nlevels.
C5_LevelsIgnoredBelow8 ==
    /\ (family = "target" /\ rets.target.called /\ args.depth < 8) =>
            rets.target = makeGrayQuantTargetTable(2 ^ args.depth, args.depth, 0)
    /\ (/\ family = "quant" /\ rets.first.called /\ rets.second.called
        /\ args.cmapflag = 0 /\ ~args.pixs.null /\ args.pixs.d = 8
        /\ args.nlevels \in 2..(2 ^ args.outdepth)
        /\ args.nlevels2 \in 2..(2 ^ args.outdepth)) =>
            /\ ~rets.first.pixd.null
            /\ rets.first.pixd = rets.second.pixd

\* a table asked for 3 levels at 2 bpp holds the 4 values 0..3
\* (C5_WitnessThreshold: two level counts gave the same 4 bpp raster)
C5_Witness ==
    /\ family = "target" /\ rets.target.called
    /\ args.depth = 2 /\ args.nlevels = 3
    /\ rets.target.tab[42] = 0 /\ rets.target.tab[43] = 1
    /\ rets.target.tab[255] = 3

C5_WitnessThreshold ==
    /\ family = "quant" /\ rets.first.called /\ rets.second.called
    /\ args.cmapflag = 0 /\ args.outdepth = 4
    /\ args.nlevels = 5 /\ args.nlevels2 = 16
    /\ args.pixs = MakePix(2, 1, 8, <<>>, <<(<<43, 255>>)>>)
    /\ rets.first.pixd.data = <<(<<3, 15>>)>>

\* C6 (as claimed): a level count outside [2,256], resp. outside
\* [2, 2^depth] at depth 8, makes the builder fail and return no table.
C6_LevelRangeRejected ==
    /\ (family = "index" /\ rets.index.called /\ args.nlevels \notin 2..256) =>
            (rets.index.null /\ ~rets.index.trap)
    /\ (/\ family = "target" /\ rets.target.called /\ args.depth = 8
        /\ args.nlevels \notin 2..(2 ^ args.depth)) =>
            (rets.target.null /\ ~rets.target.trap)

(***************************************************************************)
(* Properties of the pixelwise binarizers and the band mask                *)
(***************************************************************************)

\* pixd is a mask of the size of pixs
SameSizeMask(pixd, pixs) ==
    ~pixd.null /\ pixd.d = 1 /\ pixd.w = pixs.w /\ pixd.h = pixs.h

\* the positions of a raster, counted from 1
Positions(pix) == (1..pix.h) \X (1..pix.w)

\* the gray value a pixel stands for: its colormap entry when the raster
\* has a colormap, else the stored sample
GrayAt(pix, p) ==
    IF pix.cmap # <<>> THEN pix.cmap[pix.data[p[1]][p[2]] + 1]
    ELSE pix.data[p[1]][p[2]]

ValidThresh(pixs, thresh) ==
    \/ pixs.d = 4 /\ thresh \in 0..16
    \/ pixs.d = 8 /\ thresh \in 0..256

\* C7: pixThresholdToBinary sets bit (x,y) to 1 iff the source sample is
\* strictly less than the threshold and to 0 otherwise, for every pixel and
\* every valid threshold.  (For a colormapped source the sample is the gray
\* value of its colormap entry, and a 4 bpp colormapped source is compared
\* on the 8 bit scale, against 16 * threshold.)
C7_ThresholdPolarity ==
    (/\ family = "thresh" /\ rets.thresh.called
     /\ ~args.pixs.null /\ ValidThresh(args.pixs, args.thresh)) =>
        LET pixs == args.pixs
            pixd == rets.thresh.pixd
            t == IF pixs.cmap # <<>> /\ pixs.d = 4
                 THEN 16 * args.thresh ELSE args.thresh
        IN  /\ SameSizeMask(pixd, pixs)
            /\ \A p \in Positions(pixs) :
                  pixd.data[p[1]][p[2]] = IF GrayAt(pixs, p) < t THEN 1 ELSE 0

\* threshold 128 on the samples 0, 127, 128, 255
C7_Witness ==
    /\ family = "thresh" /\ rets.thresh.called
    /\ args.pixs = MakePix(4, 1, 8, <<>>, <<(<<0, 127, 128, 255>>)>>)
    /\ args.thresh = 128
    /\ ~rets.thresh.pixd.null
    /\ rets.thresh.pixd.data = <<(<<1, 1, 0, 0>>)>>

\* C8: pixThresholdToBinary returns a raster exactly when the source is
\* 4 bpp with a threshold in [0,16] or 8 bpp with a threshold in [0,256];
\* every other threshold or depth yields no raster.
C8_ThresholdBounds ==
    (family = "thresh" /\ rets.thresh.called /\ ~args.pixs.null) =>
        (~rets.thresh.pixd.null <=> ValidThresh(args.pixs, args.thresh))

\* the largest threshold of each depth is accepted, the next one refused
C8_Witness ==
    /\ family = "thresh" /\ rets.thresh.called
    /\ args.pixs.d = 8 /\ args.thresh = 256
    /\ ~rets.thresh.pixd.null

\* C9: on an 8 bpp source and an 8 bpp threshold raster of the same width
\* and height pixVarThresholdToBinary sets bit p iff source[p] <
\* threshold[p]; when width or height differ it returns no raster.
C9_VarThreshold ==
    (/\ family = "var" /\ rets.var.called
     /\ ~args.pixs.null /\ ~args.pixg.null) =>
        LET pixs == args.pixs
            pixg == args.pixg
            pixd == rets.var.pixd
        IN  /\ (pixs.d = 8 /\ pixg.d = 8 /\ pixs.w = pixg.w /\ pixs.h = pixg.h) =>
                  /\ SameSizeMask(pixd, pixs)
                  /\ \A p \in Positions(pixs) :
                        pixd.data[p[1]][p[2]] =
                            IF pixs.data[p[1]][p[2]] < pixg.data[p[1]][p[2]]
                            THEN 1 ELSE 0
            /\ (pixs.w # pixg.w \/ pixs.h # pixg.h) => pixd.null

C9_Witness ==
    /\ family = "var" /\ rets.var.called
    /\ args.pixs = MakePix(2, 1, 8, <<>>, <<(<<0, 128>>)>>)
    /\ args.pixg = MakePix(2, 1, 8, <<>>, <<(<<128, 128>>)>>)
    /\ ~rets.var.pixd.null
    /\ rets.var.pixd.data = <<(<<1, 0>>)>>

\* the raster the band is looked for in: the gray values when a colormap is
\* removed, else the stored samples
BandSample(pixs, usecmap, p) ==
    IF usecmap = 0 THEN GrayAt(pixs, p) ELSE pixs.data[p[1]][p[2]]

BandMaxSample(pixs, usecmap) ==
    IF usecmap = 0 /\ pixs.cmap # <<>> THEN 255 ELSE 2 ^ pixs.d - 1

\* C10: with 0 <= lower <= upper <= the largest sample value, the in-band
\* mask has bit p set iff lower <= sample[p] <= upper, the out-of-band mask
\* iff sample[p] < lower or sample[p] > upper, and the two masks of the same
\* source and band are bitwise complements.
C10_BandMask ==
    (/\ family = "band" /\ ~args.pixs.null /\ args.pixs.d \in {4, 8}
     /\ 0 <= args.lower /\ args.lower <= args.upper
     /\ args.upper <= BandMaxSample(args.pixs, args.usecmap)) =>
        LET pixs == args.pixs
            val(p) == BandSample(pixs, args.usecmap, p)
            pixin == rets.inband.pixd
            pixout == rets.outband.pixd
        IN  /\ rets.inband.called =>
                  /\ SameSizeMask(pixin, pixs)
                  /\ \A p \in Positions(pixs) :
                        pixin.data[p[1]][p[2]] =
                            IF args.lower <= val(p) /\ val(p) <= args.upper
                            THEN 1 ELSE 0
            /\ rets.outband.called =>
                  /\ SameSizeMask(pixout, pixs)
                  /\ \A p \in Positions(pixs) :
                        pixout.data[p[1]][p[2]] =
                            IF val(p) < args.lower \/ val(p) > args.upper
                            THEN 1 ELSE 0
            /\ (rets.inband.called /\ rets.outband.called) =>
                  \A p \in Positions(pixs) :
                      pixin.data[p[1]][p[2]] + pixout.data[p[1]][p[2]] = 1

\* the band [50,100] on the samples 100 and 101
C10_Witness ==
    /\ family = "band" /\ rets.inband.called /\ rets.outband.called
    /\ args.pixs = MakePix(2, 1, 8, <<>>, <<(<<100, 101>>)>>)
    /\ args.lower = 50 /\ args.upper = 100
    /\ rets.inband.pixd.data = <<(<<1, 0>>)>>
    /\ rets.outband.pixd.data = <<(<<0, 1>>)>>

(***************************************************************************)
(* Properties of the binary dithering paths                                *)
(***************************************************************************)

ValueMaskOf(pixd, pixs, val, usecmap) ==
    /\ SameSizeMask(pixd, pixs)
    /\ \A p \in Positions(pixs) :
          pixd.data[p[1]][p[2]] = 1 <=> BandSample(pixs, usecmap, p) = val

\* C11 as stated: pixGenerateMaskByValue sets mask bit p iff sample[p] = val,
\* and val is checked against the depth of the source raster: val outside
\* [0,15] for a 4 bpp source, or outside [0,255] for an 8 bpp source, gives no
\* mask, also for a 4 bpp colormapped source with usecmap = 0.
C11_ValueCheckedAgainstSourceDepth ==
    (/\ family = "value" /\ rets.mask.called
     /\ ~args.pixs.null /\ args.pixs.d \in {4, 8}) =>
        IF args.val \in 0..(2 ^ args.pixs.d - 1)
        THEN ValueMaskOf(rets.mask.pixd, args.pixs, args.val, args.usecmap)
        ELSE rets.mask.pixd.null

\* C11 amended: val is checked against the depth of the raster that is
\* compared, which is 8 bpp for every colormapped source with usecmap = 0:
\* val outside [0,15] for a 4 bpp source compared on its stored samples, or
\* outside [0,255] otherwise, gives no mask; every other val gives the mask
\* with bit p set iff the sample compared at p (the gray value of the
\* colormap entry when the colormap is removed) equals val.
C11_ValueCheckedAgainstComparedDepth ==
    (/\ family = "value" /\ rets.mask.called
     /\ ~args.pixs.null /\ args.pixs.d \in {4, 8}) =>
        IF args.val \in 0..BandMaxSample(args.pixs, args.usecmap)
        THEN ValueMaskOf(rets.mask.pixd, args.pixs, args.val, args.usecmap)
        ELSE rets.mask.pixd.null

\* a 4 bpp colormapped source asked for gray value 200 without its colormap
\* gets the mask of the pixels whose entry is 200
C11_Witness ==
    /\ family = "value" /\ rets.mask.called
    /\ args.pixs = MakePix(2, 1, 4, GrayCmap, <<(<<0, 2>>)>>)
    /\ args.val = 200 /\ args.usecmap = 0
    /\ rets.mask.pixd.data = <<(<<1, 0>>)>>

(***************************************************************************)
(* Properties of the 32 bpp masks                                          *)
(***************************************************************************)

\* the red, green and blue bytes of a 32 bpp sample or reference value
Rgb(word) == <<word[1], word[2], word[3]>>

\* C12: with delm >= 0 and delp >= 0, pixGenerateMaskByBand32 sets mask bit
\* p iff every one of the red, green and blue components c of pixel p has
\* ref_c - delm <= c <= ref_c + delp; the fourth byte of the pixel and of
\* the reference plays no part.
C12_Band32Mask ==
    (/\ family = "band32" /\ rets.mask.called
     /\ ~args.pixs.null /\ args.pixs.d = 32
     /\ args.delm >= 0 /\ args.delp >= 0) =>
        /\ SameSizeMask(rets.mask.pixd, args.pixs)
        /\ \A p \in Positions(args.pixs) :
              rets.mask.pixd.data[p[1]][p[2]] = 1 <=>
                  \A c \in 1..3 :
                      LET val == Rgb(args.pixs.data[p[1]][p[2]])[c]
                          ref == Rgb(args.refval)[c]
                      IN  /\ ref - args.delm <= val
                          /\ val - ref <= args.delp

\* the statement of C12 for tolerances whose sum with a component fits an
\* l_int32
C12_Band32MaskNoOverflow ==
    (family = "band32" /\ args.delp <= INT_MAX - 255) => C12_Band32Mask

C12_Band32Reached ==
    /\ family = "band32" /\ rets.mask.called
    /\ args.pixs = MakePix(2, 1, 32, <<>>,
                           <<(<<(<<100, 106, 100, 255>>), (<<100, 100, 100, 0>>)>>)>>)
    /\ args.refval = <<100, 100, 100, 0>> /\ args.delm = 0 /\ args.delp = 5
    /\ rets.mask.pixd.data = <<(<<0, 1>>)>>

Dist(distflag, word1, word2) ==
    LET diff(c) == IF Rgb(word1)[c] >= Rgb(word2)[c]
                   THEN Rgb(word1)[c] - Rgb(word2)[c]
                   ELSE Rgb(word2)[c] - Rgb(word1)[c]
    IN  IF distflag = L_MANHATTAN_DISTANCE
        THEN diff(1) + diff(2) + diff(3)
        ELSE diff(1) * diff(1) + diff(2) * diff(2) + diff(3) * diff(3)

\* C13: pixGenerateMaskByDiscr32 sets mask bit p iff pixel p is nearer to
\* refval1 than to refval2 in the selected metric (sum of absolute, or of
\* squared, component differences); a pixel as far from one as from the
\* other is never set.
C13_Discr32Mask ==
    (/\ family = "discr32" /\ rets.mask.called
     /\ ~args.pixs.null /\ args.pixs.d = 32
     /\ args.distflag \in {L_MANHATTAN_DISTANCE, L_EUCLIDEAN_DISTANCE}) =>
        /\ SameSizeMask(rets.mask.pixd, args.pixs)
        /\ \A p \in Positions(args.pixs) :
              LET pixel == args.pixs.data[p[1]][p[2]]
                  dist1 == Dist(args.distflag, pixel, args.refval1)
                  dist2 == Dist(args.distflag, pixel, args.refval2)
              IN  /\ rets.mask.pixd.data[p[1]][p[2]] = 1 <=> dist1 < dist2
                  /\ dist1 = dist2 => rets.mask.pixd.data[p[1]][p[2]] = 0

\* a pixel 10 away from both references is left out, next to one that is
\* nearer to the first
C13_Witness ==
    /\ family = "discr32" /\ rets.mask.called
    /\ args.pixs = MakePix(2, 1, 32, <<>>,
                           <<(<<(<<100, 100, 100, 0>>), (<<90, 100, 100, 0>>)>>)>>)
    /\ args.refval1 = <<90, 100, 100, 0>> /\ args.refval2 = <<110, 100, 100, 0>>
    /\ args.distflag = L_EUCLIDEAN_DISTANCE
    /\ rets.mask.pixd.data = <<(<<0, 1>>)>>

(***************************************************************************)
(* Properties of the table for arbitrary bins                              *)
(***************************************************************************)

\* na holds a strictly increasing sequence of boundaries in [0,255]
StrictlyIncreasing(na) ==
    /\ ~na.null
    /\ \A i \in 1..Len(na.array) : na.array[i] \in 0..255
    /\ \A i \in 1..(Len(na.array) - 1) : na.array[i] < na.array[i + 1]

\* C14: makeGrayQuantTableArb with n boundaries fails whenever n + 1 >
\* 2^outdepth, leaving neither a table nor a colormap, and does not fail
\* when n + 1 <= 2^outdepth.
C14_ArbCapacityCheck ==
    (family = "arb" /\ rets.arb.called /\ ~args.na.null) =>
        IF Len(args.na.array) + 1 > 2 ^ args.outdepth
        THEN rets.arb.ret = 1 /\ rets.arb.tab = <<>> /\ rets.arb.cmap.null
        ELSE rets.arb.ret = 0 /\ rets.arb.tab # <<>> /\ ~rets.arb.cmap.null

\* 5 boundaries are refused at 2 bpp
C14_Witness ==
    /\ family = "arb" /\ rets.arb.called
    /\ Len(args.na.array) = 5 /\ args.outdepth = 2
    /\ rets.arb.ret = 1 /\ rets.arb.tab = <<>> /\ rets.arb.cmap.null

\* C15: for strictly increasing boundaries in [0,255] the table sends every
\* v in [0,255] to the number of boundaries b_i <= v, so it never decreases
\* and tab[255] = n.
C15_ArbTableCountsBoundaries ==
    (/\ family = "arb" /\ rets.arb.called /\ rets.arb.ret = 0
     /\ StrictlyIncreasing(args.na)) =>
        LET b == args.na.array
            tab == rets.arb.tab
        IN  /\ \A v \in 0..255 :
                  tab[v] = Cardinality({i \in 1..Len(b) : b[i] <= v})
            /\ \A v \in 0..254 : tab[v] <= tab[v + 1]
            /\ tab[255] = Len(b)

C15_Witness ==
    /\ family = "arb" /\ rets.arb.called /\ rets.arb.ret = 0
    /\ args.na.array = <<60, 101, 255>> /\ args.outdepth = 2
    /\ rets.arb.tab[59] = 0 /\ rets.arb.tab[60] = 1 /\ rets.arb.tab[100] = 1
    /\ rets.arb.tab[101] = 2 /\ rets.arb.tab[254] = 2 /\ rets.arb.tab[255] = 3

\* C16: the colormap has n + 1 entries, entry i being floor((lower_i +
\* upper_i) / 2) with lower_0 = 0, lower_i = b_(i-1), upper_i = b_i for
\* i < n and 255 for the last bin.
C16_ArbColormapBinCenters ==
    (/\ family = "arb" /\ rets.arb.called /\ rets.arb.ret = 0
     /\ StrictlyIncreasing(args.na)) =>
        LET b == args.na.array
            n == Len(b)
            lower(i) == IF i = 0 THEN 0 ELSE b[i]
            upper(i) == IF i < n THEN b[i + 1] ELSE 255
        IN  /\ Len(rets.arb.cmap.array) = n + 1
            /\ \A i \in 0..n :
                  rets.arb.cmap.array[i + 1] = (lower(i) + upper(i)) \div 2

C16_Witness ==
    /\ family = "arb" /\ rets.arb.called /\ rets.arb.ret = 0
    /\ args.na.array = <<60, 101, 200>> /\ args.outdepth = 2
    /\ rets.arb.cmap.array = <<30, 80, 150, 227>>

(***************************************************************************)
(* Properties of the colormap of bin averages                              *)
(***************************************************************************)

\* the input values the table sends to bin i
BinValues(tab, i) == {v \in 0..255 : tab[v] = i}

SmallestOf(S) == CHOOSE v \in S : \A u \in S : v <= u

\* bin i of the table received no pixel of pixs
BinUnsampled(pixs, tab, i) ==
    \A p \in Positions(pixs) : tab[pixs.data[p[1]][p[2]]] # i

\* entry i of the colormap is the center of bin i: midway between the
\* smallest value sent to bin i and the smallest value sent to the next bin,
\* or 255 for the last bin
BinCenterEntry(cmap, tab, i) ==
    LET nbins == tab[255] + 1
        upper == IF i = nbins - 1 THEN 255 ELSE SmallestOf(BinValues(tab, i + 1))
    IN  /\ Len(cmap.array) = nbins
        /\ cmap.array[i + 1] = (SmallestOf(BinValues(tab, i)) + upper) \div 2

\* C17: for every table made from strictly increasing boundaries in [0,255]
\* and every source raster, a bin that received no sampled pixel still gets
\* the center of the bin as its colormap entry.  (Stated for the bins some
\* input value is sent to.)
C17_UnsampledBinGetsCenter ==
    (/\ family = "arbave" /\ rets.ave.called /\ rets.ave.ret = 0
     /\ StrictlyIncreasing(args.na)) =>
        \A i \in 0..rets.arb.tab[255] :
            (BinValues(rets.arb.tab, i) # {} /\ BinUnsampled(args.pixs, rets.arb.tab, i))
                => BinCenterEntry(rets.ave.cmap, rets.arb.tab, i)

\* the statement of C17 for sequences whose first boundary is above 0
C17_UnsampledBinGetsCenterAboveZero ==
    (family = "arbave" /\ ~args.na.null /\ args.na.array # <<>>
        /\ args.na.array[1] = 0) \/ C17_UnsampledBinGetsCenter

C17_CenterReached ==
    /\ family = "arbave" /\ rets.ave.called /\ rets.ave.ret = 0
    /\ args.na.array = <<60, 101>> /\ args.outdepth = 2
    /\ args.pixs = MakePix(2, 1, 8, <<>>, <<(<<30, 0>>)>>)
    /\ rets.ave.cmap.array = <<15, 80, 178>>

(***************************************************************************)
(* Properties of the rasters in storage                                    *)
(***************************************************************************)

C19_ColormappedSourceCopied ==
    (/\ family = "fromcmap" /\ rets.quant.called
     /\ ~args.pixs.null /\ pixGetColormap(args.pixs)) =>
        /\ rets.quant.id # 0
        /\ rets.quant.id # FrameSource
        /\ rets.heap[rets.quant.id].pix = args.pixs
        /\ rets.heap[FrameSource].pix = args.pixs
        /\ rets.quant.warning = "pixs already has a colormap; returning a copy"

\* a 4 bpp colormapped source, no colormap to quantize to and a depth that
\* is not allowed still give the copy
C19_Witness ==
    /\ family = "fromcmap" /\ rets.quant.called
    /\ args.pixs = MakePix(2, 1, 4, GrayCmap, <<(<<2, 0>>)>>)
    /\ args.cmap.null /\ args.mindepth = 3
    /\ rets.quant.id = 2
    /\ rets.heap[2].pix = args.pixs

\* a source without colormap is quantized to the nearest entries
C19_QuantizedReached ==
    /\ family = "fromcmap" /\ rets.quant.called
    /\ args.pixs = MakePix(2, 1, 8, <<>>, <<(<<100, 255>>)>>)
    /\ args.cmap = MakeColors(<<(<<0, 0, 0>>), (<<128, 128, 128>>), (<<255, 255, 255>>)>>)
    /\ args.mindepth = 4
    /\ rets.heap[rets.quant.id].pix = MakePix(2, 1, 4, <<0, 128, 255>>, <<(<<1, 2>>)>>)

(***************************************************************************)
(* Properties of one dithering step                                        *)
(***************************************************************************)

\* the residual of a pixel of value oval: its excess above 0 when it goes to
\* black, its (negative) excess below 255 when it goes to white, and nothing
\* within the clip distances of 0 and 255
Residual(oval, lowerclip, upperclip) ==
    IF oval > 127
    THEN IF 255 - oval > upperclip THEN oval - 255 ELSE 0
    ELSE IF oval > lowerclip THEN oval ELSE 0

Saturated(v) == IF v < 0 THEN 0 ELSE IF v > 255 THEN 255 ELSE v

C20_LastColumnReached ==
    /\ family = "step" /\ rets.step.called /\ ~rets.step.lastline
    /\ rets.step.j = 1 /\ args.pixt.w = 2 /\ args.upperclip = 10
    /\ rets.step.before.bufs1 = <<8, 130>> /\ rets.step.before.bufs2 = <<250, 100>>
    /\ rets.step.after.bufs1 = <<8, 130>> /\ rets.step.after.bufs2 = <<250, 54>>

(***************************************************************************)
(* Properties of the clip distances                                        *)
(***************************************************************************)

\* the step left current and next as they were
StepSpreadsNothing ==
    /\ rets.step.after.bufs1 = rets.step.before.bufs1
    /\ rets.step.after.bufs2 = rets.step.before.bufs2

\* the bit the step wrote: 1 is black, 0 is white
StepBit == rets.step.after.lined[1]

StepValue == rets.step.before.bufs1[rets.step.j + 1]

C21_WhiteReached ==
    /\ family = "step" /\ rets.step.called
    /\ args.upperclip = 10 /\ rets.step.j = 0 /\ ~rets.step.lastline
    /\ rets.step.before.bufs1 = <<250, 100>> /\ rets.step.before.bufs2 = <<100, 100>>
    /\ StepBit = 0 /\ StepSpreadsNothing

(***************************************************************************)
(* Properties of the tests of the clip distances                           *)
(***************************************************************************)

ClipOutOfRange(clip) == clip < 0 \/ clip > 255

\* C22 as stated: each of the three dithering entry points returns no raster
\* when lowerclip or upperclip is outside [0,255].
C22_ClipOutOfRangeFails ==
    (family = "clip"
        /\ (ClipOutOfRange(args.lowerclip) \/ ClipOutOfRange(args.upperclip))) =>
        /\ rets.spec.called => rets.spec.pixd.null
        /\ rets.lut.called => rets.lut.pixd.null
        /\ rets.two.called => rets.two.pixd.null

\* C22: pixDitherToBinarySpec and pixDitherTo2bppSpec return no raster when
\* lowerclip or upperclip is outside [0,255]; pixDitherToBinaryLUT on an
\* 8 bpp source always returns a raster, and with every negative clip
\* distance replaced by the default and no clip distance above 255 it
\* is the raster pixDitherToBinarySpec returns for the replaced distances.
C22_ClipOutOfRangeFailsButLUT ==
    family = "clip" =>
        LET outside == ClipOutOfRange(args.lowerclip) \/ ClipOutOfRange(args.upperclip)
            lower == IF args.lowerclip < 0 THEN DEFAULT_CLIP_LOWER_1 ELSE args.lowerclip
            upper == IF args.upperclip < 0 THEN DEFAULT_CLIP_UPPER_1 ELSE args.upperclip
        IN  /\ (rets.spec.called /\ outside) => rets.spec.pixd.null
            /\ (rets.two.called /\ outside) => rets.two.pixd.null
            /\ (rets.lut.called /\ ~args.pixs.null /\ args.pixs.d = 8) =>
                  /\ ~rets.lut.pixd.null
                  /\ (lower <= 255 /\ upper <= 255) =>
                        rets.lut.pixd = pixDitherToBinarySpec(args.pixs, lower, upper)

\* lowerclip 256 on an 8 bpp source: refused by pixDitherToBinarySpec and
\* pixDitherTo2bppSpec, dithered by pixDitherToBinaryLUT
C22_Witness ==
    /\ family = "clip"
    /\ rets.spec.called /\ rets.lut.called /\ rets.two.called
    /\ args.pixs = MakePix(2, 1, 8, <<>>, <<(<<100, 130>>)>>)
    /\ args.lowerclip = 256 /\ args.upperclip = 10
    /\ rets.spec.pixd.null /\ rets.two.pixd.null
    /\ rets.lut.pixd = MakePix(2, 1, 1, <<>>, <<(<<1, 0>>)>>)

\* clip distances in range: 100 dithers to level 1 of the 2 bpp colormap and
\* its excess of 15 brings 130 to 135, level 2
C22_TwoBppReached ==
    /\ family = "clip" /\ rets.two.called
    /\ args.pixs = MakePix(2, 1, 8, <<>>, <<(<<100, 130>>)>>)
    /\ args.lowerclip = 10 /\ args.upperclip = 10 /\ args.cmapflag = 1
    /\ rets.two.pixd = MakePix(2, 1, 2, <<0, 85, 170, 255>>, <<(<<1, 2>>)>>)

(***************************************************************************)
(* Properties of repeated dithering                                        *)
(***************************************************************************)

\* the raster call i of the caller returned, NullPix for NULL
TwiceOut(i) ==
    IF rets.outs[i].id = 0 THEN NullPix ELSE rets.heap[rets.outs[i].id].pix

StepPassResult ==
    DitherLines(args.pixt, 1, args.pixt.data[1], <<>>, args.kern)

C25_FourBitThresholdScale ==
    (/\ family = "thresh" /\ rets.thresh.called
     /\ ~args.pixs.null /\ args.pixs.d = 4 /\ args.thresh \in 0..16) =>
        LET pixs == args.pixs
            pixd == rets.thresh.pixd
            gray == MakePix(pixs.w, pixs.h, 8, <<>>,
                            [y \in 1..pixs.h |-> [x \in 1..pixs.w |->
                                pixs.cmap[pixs.data[y][x] + 1]]])
        IN  IF pixs.cmap # <<>>
            THEN /\ ~pixd.null
                 /\ pixd = pixThresholdToBinary(gray, 16 * args.thresh)
                 /\ \A p \in Positions(pixs) :
                       pixd.data[p[1]][p[2]] =
                           IF gray.data[p[1]][p[2]] < 16 * args.thresh THEN 1 ELSE 0
            ELSE /\ ~pixd.null
                 /\ \A p \in Positions(pixs) :
                       pixd.data[p[1]][p[2]] =
                           IF pixs.data[p[1]][p[2]] < args.thresh THEN 1 ELSE 0

\* the gray values 200, 0, 90 of a 4 bpp colormapped source at threshold 8:
\* compared against 128, where 90 is below and not, as against 8, above
C25_Witness ==
    /\ family = "thresh" /\ rets.thresh.called
    /\ args.pixs = MakePix(3, 1, 4, GrayCmap, <<(<<0, 1, 2>>)>>)
    /\ args.thresh = 8
    /\ rets.thresh.pixd.data = <<(<<0, 1, 1>>)>>

\* the 4 bit samples 0, 7, 8, 15 without colormap at threshold 8
C25_UnscaledReached ==
    /\ family = "thresh" /\ rets.thresh.called
    /\ args.pixs = MakePix(4, 1, 4, <<>>, <<(<<0, 7, 8, 15>>)>>)
    /\ args.thresh = 8
    /\ rets.thresh.pixd.data = <<(<<1, 1, 0, 0>>)>>

(***************************************************************************)
(* Properties of the placing of the thresholds                             *)
(***************************************************************************)

\* the representative value of level j among nlevels equally spaced levels
Representative(j, nlevels) == (255 * j) \div (nlevels - 1)

\* the representative value of level j is at least as close to v as that of
\* every other level
NearestLevel(j, v, nlevels) ==
    \A k \in 0..(nlevels - 1) :
        L_ABS(Representative(j, nlevels) - v) <= L_ABS(Representative(k, nlevels) - v)

\* the same for the values 255 * j / (nlevels - 1) before they are truncated
\* to integers, compared after multiplying by nlevels - 1
NearestExactLevel(j, v, nlevels) ==
    \A k \in 0..(nlevels - 1) :
        L_ABS(255 * j - v * (nlevels - 1)) <= L_ABS(255 * k - v * (nlevels - 1))

\* the representative value of level j is at most 1 further from v than that
\* of any other level
NearlyNearestLevel(j, v, nlevels) ==
    \A k \in 0..(nlevels - 1) :
        L_ABS(Representative(j, nlevels) - v)
            <= L_ABS(Representative(k, nlevels) - v) + 1

\* the level chosen for v: the entry of the index table, the entry of a
\* target table of depth 2 or 4, and at depth 8 the level whose
\* representative value the target table holds
ChosenLevels(v) ==
    IF family = "index" THEN {rets.index.tab[v]}
    ELSE IF args.depth # 8 THEN {rets.target.tab[v]}
    ELSE {j \in 0..(args.nlevels - 1) :
             rets.target.tab[v] = Representative(j, args.nlevels)}

\* the number of levels the table was built for
ChosenOutOf ==
    IF family = "target" /\ args.depth # 8 THEN 2 ^ args.depth ELSE args.nlevels

TableBuilt ==
    \/ family = "index" /\ rets.index.called /\ args.nlevels \in 2..256
    \/ family = "target" /\ rets.target.called /\ args.nlevels \in 2..256

\* C26 as stated: for every nlevels in [2,256] and every v in [0,255], the
\* level chosen by makeGrayQuantIndexTable and makeGrayQuantTargetTable has
\* a representative value floor(255 * j / (nlevels - 1)) at least as close
\* to v as that of every other level.
C26_ChosenLevelIsNearest ==
    TableBuilt =>
        \A v \in 0..255 :
            /\ ChosenLevels(v) # {}
            /\ \A j \in ChosenLevels(v) : NearestLevel(j, v, ChosenOutOf)

\* C26: for every nlevels in [2,256] and every v in [0,255], the level j
\* chosen has the value 255 * j / (nlevels - 1), taken before truncation to
\* an integer, at least as close to v as that of every other level; the
\* truncated representative value is at most 1 further from v than that of
\* any other level.
C26_ChosenLevelIsNearestExact ==
    TableBuilt =>
        \A v \in 0..255 :
            /\ ChosenLevels(v) # {}
            /\ \A j \in ChosenLevels(v) :
                  /\ NearestExactLevel(j, v, ChosenOutOf)
                  /\ NearlyNearestLevel(j, v, ChosenOutOf)

\* eight levels: 91 goes to level 2, of value 72 (exactly 72.86), though
\* the value 109 of level 3 (exactly 109.29) is closer to 91 by 1
C26_Witness ==
    /\ family = "index" /\ rets.index.called /\ args.nlevels = 8
    /\ rets.index.tab[91] = 2 /\ rets.index.tab[92] = 3
    /\ Representative(2, 8) = 72 /\ Representative(3, 8) = 109

(***************************************************************************)
(* Properties of the allocations                                           *)
(***************************************************************************)

\* the rasters still referenced after the call, the source aside
LiveRasters ==
    {id \in 1..Len(rets.heap) : id # FrameSource /\ rets.heap[id].refcount > 0}

\* C27: when a call returns, nothing it allocated is still allocated but
\* what it hands to its caller (the raster returned, or the table and
\* colormap of makeGrayQuantTableArb), the source has its one reference,
\* and a call that reports failure leaves nothing allocated.
C27_NothingLeftAllocated ==
    (family = "alloc" /\ rets.called) =>
        /\ LiveRasters = rets.out
        /\ rets.blocks = rets.kept
        /\ FrameSource # 0 => rets.heap[FrameSource].refcount = 1
        /\ rets.failed => (LiveRasters = {} /\ rets.blocks = {})

\* the calls in which no allocation fails and no colormap is refused leave
\* nothing behind
C27_NothingLeftWithoutFailure ==
    (family = "alloc" /\ rets.called /\ ~rets.failed) => C27_NothingLeftAllocated

\* pixDitherToBinarySpec returns a raster and leaves no other
C27_SuccessReached ==
    /\ family = "alloc" /\ rets.called /\ ~rets.failed
    /\ rets.op = "pixDitherToBinarySpec"
    /\ args.pixs = MakePix(2, 1, 8, GrayCmap, <<(<<0, 1>>)>>)
    /\ rets.out = {2} /\ LiveRasters = {2} /\ rets.blocks = {}
    /\ rets.heap[2].pix = MakePix(2, 1, 1, <<>>, <<(<<0, 1>>)>>)

\* C28: each entry point that takes 8 bpp gray accepts a source with a
\* colormap, and its result is its result on the source with the colormap
\* removed to gray (not its result on the colormap indices).
C28_ColormappedSourceFlattened ==
    (family = "gray" /\ rets.called) =>
        /\ ~rets.pixd.null
        /\ rets.pixd = GrayInputOp(rets.op, pixRemoveColormap(args.pixs), args)

\* the entry points other than pixVarThresholdToBinary do so
C28_FlattenedButVar ==
    (family = "gray" /\ rets.called /\ rets.op # "pixVarThresholdToBinary") =>
        C28_ColormappedSourceFlattened

\* pixVarThresholdToBinary compares the colormap index 0 (gray 200) with
\* the threshold 100 and sets the bit
C28_VarOnIndicesReached ==
    /\ family = "gray" /\ rets.called /\ rets.op = "pixVarThresholdToBinary"
    /\ args.pixs = MakePix(1, 1, 8, GrayCmap, <<(<<0>>)>>)
    /\ args.pixg = MakePix(1, 1, 8, <<>>, <<(<<100>>)>>)
    /\ rets.pixd = MakePix(1, 1, 1, <<>>, <<(<<1>>)>>)

\* the entry points do not return their result on the colormap indices
C28_NotOnIndicesReached ==
    /\ family = "gray" /\ rets.called /\ rets.op = "pixThresholdTo2bpp"
    /\ ~rets.pixd.null
    /\ rets.pixd # GrayInputOp(rets.op, [args.pixs EXCEPT !.cmap = <<>>], args)

(***************************************************************************)
(* Properties of the colormap indices stored                               *)
(***************************************************************************)

\* every sample of pixd is the index of one of the nlevels entries of the
\* colormap pixd has
IndicesWithin(pixd, nlevels) ==
    /\ Len(pixd.cmap) = nlevels
    /\ \A p \in Positions(pixd) : pixd.data[p[1]][p[2]] \in 0..(Len(pixd.cmap) - 1)

\* an 8 bpp source, with or without a colormap
GraySource(pixs) == ~pixs.null /\ pixs.d = 8

\* C29: with cmapflag = 1 and a valid nlevels, every sample pixThresholdTo2bpp,
\* pixThresholdTo4bpp and pixThresholdOn8bpp store is < nlevels, the number
\* of entries of the colormap attached; every entry of the table of
\* makeGrayQuantTableArb is <= n, the last index of its colormap of n + 1
\* entries.
C29_IndicesHaveEntries ==
    /\ (/\ family = "quant" /\ rets.first.called
        /\ args.cmapflag = 1 /\ GraySource(args.pixs)
        /\ args.nlevels \in 2..(2 ^ args.outdepth)) =>
            /\ ~rets.first.pixd.null
            /\ IndicesWithin(rets.first.pixd, args.nlevels)
    /\ (/\ family = "quant" /\ rets.second.called
        /\ args.cmapflag = 1 /\ GraySource(args.pixs)
        /\ args.nlevels2 \in 2..(2 ^ args.outdepth)) =>
            /\ ~rets.second.pixd.null
            /\ IndicesWithin(rets.second.pixd, args.nlevels2)
    /\ (/\ family = "on8" /\ rets.once.called
        /\ args.cmapflag = 1 /\ GraySource(args.pixs)
        /\ args.nlevels \in 2..256) =>
            /\ ~rets.once.pixd.null
            /\ IndicesWithin(rets.once.pixd, args.nlevels)
            /\ rets.twice.called =>
                  /\ ~rets.twice.pixd.null
                  /\ IndicesWithin(rets.twice.pixd, args.nlevels)
    /\ (family = "arb" /\ rets.arb.called /\ rets.arb.ret = 0) =>
            /\ Len(rets.arb.cmap.array) = Len(args.na.array) + 1
            /\ \A v \in 0..255 : rets.arb.tab[v] \in 0..Len(args.na.array)

\* 132 levels at 8 bpp: the samples 37 and 255 get the indices 19 and 131
C29_Witness ==
    /\ family = "on8" /\ rets.once.called
    /\ args.cmapflag = 1 /\ args.nlevels = 132
    /\ args.pixs = MakePix(2, 1, 8, <<>>, <<(<<37, 255>>)>>)
    /\ rets.once.pixd.data = <<(<<19, 131>>)>>
    /\ Len(rets.once.pixd.cmap) = 132

\* 3 levels at 2 bpp: the sample 255 gets the last index, 2
C29_TwoBppReached ==
    /\ family = "quant" /\ rets.first.called
    /\ args.cmapflag = 1 /\ args.nlevels = 3 /\ args.outdepth = 2
    /\ args.pixs = MakePix(2, 1, 8, <<>>, <<(<<0, 255>>)>>)
    /\ rets.first.pixd.data = <<(<<0, 2>>)>>
    /\ rets.first.pixd.cmap = <<0, 127, 255>>

\* 3 boundaries at 2 bpp: the table ends at index 3 of 4 entries
C29_ArbReached ==
    /\ family = "arb" /\ rets.arb.called /\ rets.arb.ret = 0
    /\ args.na.array = <<60, 101, 200>> /\ args.outdepth = 2
    /\ rets.arb.tab[255] = 3 /\ Len(rets.arb.cmap.array) = 4

(***************************************************************************)
(* Quantizing a quantized raster                                           *)
(***************************************************************************)

\* C30: for nlevels in [2,256], T = makeGrayQuantTargetTable(nlevels, 8) and
\* every v, T[T[v]] = T[v]; pixThresholdOn8bpp(nlevels, cmapflag = 0) on its
\* own output changes no pixel.
C30_QuantizeTwiceSame ==
    /\ (/\ family = "target" /\ rets.target.called
        /\ args.depth = 8 /\ args.nlevels \in 2..256) =>
            /\ ~rets.target.null
            /\ \A v \in 0..255 :
                  rets.target.tab[rets.target.tab[v]] = rets.target.tab[v]
    /\ (/\ family = "on8" /\ rets.twice.called
        /\ args.cmapflag = 0 /\ GraySource(args.pixs)
        /\ args.nlevels \in 2..256) =>
            /\ ~rets.twice.pixd.null
            /\ rets.twice.pixd = rets.once.pixd

\* the level counts at which the value of a level is not above the threshold
\* of the level below
DriftingLevels ==
    {n \in 2..256 : \E j \in 1..(n - 1) :
        QuantVal(j, n, 8, 0) <= QuantThresh(j - 1, n, 0)}

\* at the other level counts the claim holds
C30_SameWithoutDrift ==
    (\/ family = "target" /\ args.nlevels \notin DriftingLevels
     \/ family = "on8" /\ args.nlevels \notin DriftingLevels) =>
        C30_QuantizeTwiceSame

\* 132 levels: 37 goes to 36, and 36 to 35
C30_DriftReached ==
    /\ family = "on8" /\ rets.twice.called
    /\ args.cmapflag = 0 /\ args.nlevels = 132
    /\ args.pixs = MakePix(1, 1, 8, <<>>, <<(<<37>>)>>)
    /\ rets.once.pixd.data = <<(<<36>>)>>
    /\ rets.twice.pixd.data = <<(<<35>>)>>

\* 3 levels: 130 goes to 127, and 127 stays
C30_FixedReached ==
    /\ family = "on8" /\ rets.twice.called
    /\ args.cmapflag = 0 /\ args.nlevels = 3
    /\ args.pixs = MakePix(1, 1, 8, <<>>, <<(<<130>>)>>)
    /\ rets.once.pixd.data = <<(<<127>>)>>
    /\ rets.twice.pixd = rets.once.pixd

=============================================================================
